---- MODULE Spec2Model ----
\* Codetree: project detection, the directory walk (get_file_tree_and_contents),
\* the statistics accumulator (ProjectStats::add_file) and the per-file collection
\* loop of main, over a bounded family of directory trees.
\*
\* Strings are sequences of one-character strings, so that suffix tests, extensions,
\* lower-casing and the byte-wise order of names are computed, not assumed.
EXTENDS Integers, Sequences, FiniteSets, TLC

\* ---------------------------------------------------------------- strings
\* The printable ASCII characters, in code order starting at 32. The double quote,
\* the backslash and the backtick occur in no name or content of the model and are
\* held by words.
Printable ==
    <<" ", "!", "quote", "#", "$", "%", "&", "'", "(", ")", "*", "+", ",", "-", ".", "/", "0",
       "1", "2", "3", "4", "5", "6", "7", "8", "9", ":", ";", "<", "=", ">", "?", "@", "A",
       "B", "C", "D", "E", "F", "G", "H", "I", "J", "K", "L", "M", "N", "O", "P", "Q", "R",
       "S", "T", "U", "V", "W", "X", "Y", "Z", "[", "backslash", "]", "^", "_", "backtick", "a", "b", "c",
       "d", "e", "f", "g", "h", "i", "j", "k", "l", "m", "n", "o", "p", "q", "r", "s", "t",
       "u", "v", "w", "x", "y", "z", "{", "|", "}", "~">>

\* Base directories to always exclude from the analysis
BASE_EXCLUDED_DIRS ==
    << <<".", "i", "d", "e", "a">>,
       <<".", "g", "i", "t">>,
       <<".", "g", "i", "t", "h", "u", "b">>,
       <<".", "g", "i", "t", "l", "a", "b">>,
       <<".", "v", "s", "c", "o", "d", "e">>,
       <<".", "v", "e", "n", "v">>,
       <<"c", "a", "c", "h", "e">>,
       <<"f", "o", "n", "t", "s">>,
       <<"o", "b", "j">>,
       <<"o", "u", "t">> >>

\* Files to exclude from the analysis
EXCLUDED_FILES ==
    << <<".", "D", "S", "_", "S", "t", "o", "r", "e">>,
       <<".", "e", "n", "v">>,
       <<".", "e", "s", "l", "i", "n", "t", "r", "c", ".", "j", "s", "o", "n">>,
       <<".", "g", "i", "t", "i", "g", "n", "o", "r", "e">>,
       <<".", "n", "p", "m", "i", "g", "n", "o", "r", "e">>,
       <<"C", "a", "r", "g", "o", ".", "l", "o", "c", "k">>,
       <<"e", "s", "l", "i", "n", "t", ".", "c", "o", "n", "f", "i", "g", ".", "j", "s">>,
       <<"f", "a", "v", "i", "c", "o", "n", ".", "i", "c", "o">>,
       <<"g", "l", "o", "b", "a", "l", "s", ".", "c", "s", "s">>,
       <<"n", "e", "x", "t", ".", "c", "o", "n", "f", "i", "g", ".", "m", "j", "s">>,
       <<"n", "e", "x", "t", "-", "e", "n", "v", ".", "d", ".", "t", "s">>,
       <<"p", "o", "s", "t", "c", "s", "s", ".", "c", "o", "n", "f", "i", "g", ".", "j", "s">>,
       <<"p", "o", "s", "t", "c", "s", "s", ".", "c", "o", "n", "f", "i", "g", ".", "m", "j", "s">>,
       <<"R", "E", "A", "D", "M", "E", ".", "m", "d">>,
       <<"p", "a", "c", "k", "a", "g", "e", "-", "l", "o", "c", "k", ".", "j", "s", "o", "n">>,
       <<"p", "n", "p", "m", "-", "l", "o", "c", "k", ".", "y", "a", "m", "l">>,
       <<"t", "a", "i", "l", "w", "i", "n", "d", ".", "c", "o", "n", "f", "i", "g", ".", "j", "s">>,
       <<"t", "a", "i", "l", "w", "i", "n", "d", ".", "c", "o", "n", "f", "i", "g", ".", "t", "s">>,
       <<"t", "s", "c", "o", "n", "f", "i", "g", ".", "a", "p", "p", ".", "j", "s", "o", "n">>,
       <<"t", "s", "c", "o", "n", "f", "i", "g", ".", "n", "o", "d", "e", ".", "j", "s", "o", "n">>,
       <<"t", "s", "c", "o", "n", "f", "i", "g", ".", "j", "s", "o", "n">>,
       <<"t", "h", "u", "m", "b", "s", ".", "d", "b">>,
       <<"t", "s", "c", "o", "n", "f", "i", "g", ".", "j", "s", "o", "n">>,
       <<"v", "i", "t", "e", ".", "c", "o", "n", "f", "i", "g", ".", "t", "s">>,
       <<"y", "a", "r", "n", ".", "l", "o", "c", "k">> >>

\* Files that may contain sensitive information
SENSITIVE_FILES ==
    << <<".", "e", "n", "v">>,
       <<".", "e", "n", "v", ".", "l", "o", "c", "a", "l">>,
       <<".", "e", "n", "v", ".", "d", "e", "v", "e", "l", "o", "p", "m", "e", "n", "t">>,
       <<".", "e", "n", "v", ".", "p", "r", "o", "d", "u", "c", "t", "i", "o", "n">>,
       <<".", "e", "n", "v", ".", "t", "e", "s", "t">>,
       <<"c", "o", "n", "f", "i", "g", ".", "j", "s", "o", "n">>,
       <<"s", "e", "c", "r", "e", "t", "s", ".", "j", "s", "o", "n">>,
       <<"c", "r", "e", "d", "e", "n", "t", "i", "a", "l", "s", ".", "j", "s", "o", "n">>,
       <<"a", "w", "s", "-", "c", "o", "n", "f", "i", "g", ".", "j", "s", "o", "n">>,
       <<"f", "i", "r", "e", "b", "a", "s", "e", "-", "c", "o", "n", "f", "i", "g", ".", "j", "s", "o", "n">>,
       <<"d", "a", "t", "a", "b", "a", "s", "e", ".", "y", "m", "l">>,
       <<"s", "e", "t", "t", "i", "n", "g", "s", ".", "p", "y">>,
       <<"c", "o", "n", "f", "i", "g", ".", "p", "y">>,
       <<"w", "p", "-", "c", "o", "n", "f", "i", "g", ".", "p", "h", "p">>,
       <<"a", "p", "p", "l", "i", "c", "a", "t", "i", "o", "n", ".", "p", "r", "o", "p", "e", "r", "t", "i", "e", "s">> >>

\* Position of the character c in code order (its ASCII code).
Code(c) == 31 + (CHOOSE i \in 1..Len(Printable) : Printable[i] = c)

\* char::to_lowercase on ASCII letters; every other character is kept.
LowerChar(c) == IF Code(c) >= 65 /\ Code(c) <= 90 THEN Printable[Code(c) + 32 - 31] ELSE c

\* str::to_lowercase
to_lowercase(s) == [i \in 1..Len(s) |-> LowerChar(s[i])]

\* str::ends_with
ends_with(s, suf) ==
    /\ Len(suf) <= Len(s)
    /\ SubSeq(s, Len(s) - Len(suf) + 1, Len(s)) = suf

\* str::starts_with
starts_with(s, pre) ==
    /\ Len(pre) <= Len(s)
    /\ SubSeq(s, 1, Len(pre)) = pre

\* str::contains for a non-empty pattern
contains(s, pat) ==
    \E i \in 1..Len(s) : i + Len(pat) - 1 <= Len(s) /\ SubSeq(s, i, i + Len(pat) - 1) = pat

\* Ord for str: byte-wise lexicographic order, a proper prefix is smaller.
StrLess(a, b) ==
    \E k \in 1..(Len(b)) :
        /\ \A j \in 1..(k - 1) : j <= Len(a) /\ a[j] = b[j]
        /\ k - 1 <= Len(a)
        /\ \/ k = Len(a) + 1
           \/ k <= Len(a) /\ Code(a[k]) < Code(b[k])

\* slice::contains over a constant list
InList(list, s) == \E i \in 1..Len(list) : list[i] = s

\* Option<T>
Some(v) == [some |-> TRUE, val |-> v]
None == [some |-> FALSE, val |-> <<>>]

\* Path::extension on the last component: nothing when the name has no dot or
\* only a leading one, otherwise what follows the last dot.
extension(name) ==
    LET dots == {i \in 1..Len(name) : name[i] = "."}
    IN  IF dots = {} \/ name = <<".", ".">> THEN None
        ELSE LET last == CHOOSE i \in dots : \A j \in dots : j <= i
             IN  IF last = 1 THEN None ELSE Some(SubSeq(name, last + 1, Len(name)))

\* Path::file_name of a path given as the sequence of its components below the root
file_name(path) == IF Len(path) = 0 THEN <<>> ELSE path[Len(path)]

\* ---------------------------------------------------------------- file system
\* A node of the directory tree. kind is "dir", "file" or "link" (a symbolic link
\* whose target does not exist). blocks is st_blocks, len the logical length,
\* text the decoded content (None when the bytes are not valid UTF-8).
DirNode(children) ==
    [kind |-> "dir", children |-> children, blocks |-> 0, len |-> 0, text |-> None]
FileNode(blocks, len, text) ==
    [kind |-> "file", children |-> <<>>, blocks |-> blocks, len |-> len, text |-> text]
LinkNode ==
    [kind |-> "link", children |-> <<>>, blocks |-> 0, len |-> 0, text |-> None]
NoNode ==
    [kind |-> "none", children |-> <<>>, blocks |-> 0, len |-> 0, text |-> None]

\* An entry the directory listing fails to resolve: WalkDir yields an error for it.
LostNode ==
    [kind |-> "lost", children |-> <<>>, blocks |-> 0, len |-> 0, text |-> None]

\* A text file whose blocks are allocated.
TextFile(text) == FileNode(8, Len(text), Some(text))

\* The node a path names in a forest (a function from names to nodes).
RECURSIVE Lookup(_, _)
Lookup(forest, path) ==
    IF Len(path) = 0 \/ path[1] \notin DOMAIN forest THEN NoNode
    ELSE IF Len(path) = 1 THEN forest[path[1]]
    ELSE Lookup(forest[path[1]].children, Tail(path))

\* Path::exists follows symbolic links: false for a missing path and a dangling link.
exists(node) == node.kind \in {"dir", "file"}

\* io::Result<T>
Ok(v) == [ok |-> TRUE, val |-> v]
Err == [ok |-> FALSE, val |-> 0]

Min(a, b) == IF a < b THEN a ELSE b

BlockSize == 512

\* get_real_file_size on unix: min(st_blocks * 512, len); an error when the
\* metadata cannot be read.
get_real_file_size_unix(node) ==
    IF ~exists(node) THEN Err
    ELSE Ok(Min(node.blocks * BlockSize, node.len))

get_real_file_size(node) == get_real_file_size_unix(node)

\* fs::read_to_string: the content of a regular file that is valid UTF-8.
read_to_string(node) ==
    IF node.kind = "file" /\ node.text.some THEN [ok |-> TRUE, val |-> node.text.val]
    ELSE [ok |-> FALSE, val |-> <<>>]

\* fs::metadata(path).len()
metadata_len(node) == IF exists(node) THEN Ok(node.len) ELSE Err

\* ---------------------------------------------------------------- names
n_src == <<"s", "r", "c">>
n_a_rs == <<"a", ".", "r", "s">>
n_git == <<".", "g", "i", "t">>
n_target == <<"t", "a", "r", "g", "e", "t">>
n_Cargo_toml == <<"C", "a", "r", "g", "o", ".", "t", "o", "m", "l">>
n_env == <<".", "e", "n", "v">>
n_prod_env == <<"p", "r", "o", "d", ".", "e", "n", "v">>
n_codetree == <<"c", "o", "d", "e", "t", "r", "e", "e">>
n_codetree_txt == <<"c", "o", "d", "e", "t", "r", "e", "e", ".", "t", "x", "t">>

\* ---------------------------------------------------------------- bounded inputs
\* The entry names the directory trees are built from.
WalkNames ==
    << n_git, n_env, n_Cargo_toml, n_codetree, n_codetree_txt, n_prod_env, n_target >>

\* The most entries (files, directories, links) a tree holds below its root.
MaxNodes == 3

\* Contents of the files of a tree: a text file, and a file that is not valid
\* UTF-8 and takes less room on disk than its length (compressed or sparse).
t_code == <<"x", "\n">>
BinaryFile == FileNode(1, 600, None)
LeafNodes == {TextFile(t_code), BinaryFile, LinkNode}

RECURSIVE NodeSize(_), ForestSize(_)
NodeSize(node) == 1 + ForestSize(node.children)
ForestSize(forest) ==
    IF DOMAIN forest = {} THEN 0
    ELSE LET n == CHOOSE x \in DOMAIN forest : TRUE
         IN  NodeSize(forest[n]) + ForestSize([x \in DOMAIN forest \ {n} |-> forest[x]])

EmptyForest == <<>>
Extend(forest, name, node) ==
    [x \in DOMAIN forest \cup {name} |-> IF x = name THEN node ELSE forest[x]]

\* The forests over the names WalkNames[i..] that hold at most n nodes.
RECURSIVE ForestsFrom(_, _), NodesUpTo(_)
NodesUpTo(n) == LeafNodes \cup {DirNode(c) : c \in ForestsFrom(1, n - 1)}
ForestsFrom(i, n) ==
    IF n <= 0 \/ i > Len(WalkNames) THEN {EmptyForest}
    ELSE {EmptyForest} \cup
         UNION { UNION { { Extend(rest, WalkNames[j], node) :
                              rest \in ForestsFrom(j + 1, n - NodeSize(node)) } :
                          node \in NodesUpTo(n) } :
                 j \in i..Len(WalkNames) }

\* The directory trees of at most n entries.
TreesUpTo(n) == ForestsFrom(1, n)

\* Trees in which things go wrong entry by entry: an entry the listing cannot
\* resolve, a file that is gone when it is looked at (as a dangling link is),
\* a file that cannot be decoded.
FaultyNames == << n_git, n_codetree_txt, n_prod_env, n_target >>
FaultyLeaves == {TextFile(t_code), BinaryFile, LinkNode, LostNode}

\* The forests over the names FaultyNames[i..] that hold at most n nodes.
RECURSIVE FaultyForestsFrom(_, _)
FaultyForestsFrom(i, n) ==
    IF n <= 0 \/ i > Len(FaultyNames) THEN {EmptyForest}
    ELSE {EmptyForest} \cup
         UNION { UNION { { Extend(rest, FaultyNames[j], node) :
                              rest \in FaultyForestsFrom(j + 1, n - NodeSize(node)) } :
                          node \in FaultyLeaves \cup
                                   {DirNode(c) : c \in FaultyForestsFrom(1, n - 1)} } :
                 j \in i..Len(FaultyNames) }

\* ---------------------------------------------------------------- statistics
MapAdd_Overwrite(m, k, v) == [x \in DOMAIN m \cup {k} |-> IF x = k THEN v ELSE m[x]]

\* HashMap::entry(k).or_insert(0) += v
MapAdd(m, k, v) ==
    [x \in DOMAIN m \cup {k} |->
        (IF x \in DOMAIN m THEN m[x] ELSE 0) + (IF x = k THEN v ELSE 0)]

\* str::lines: the pieces between line feeds, a carriage return before a line feed
\* dropped, no line for what follows a final line feed.
RECURSIVE lines(_)
lines(s) ==
    IF Len(s) = 0 THEN <<>>
    ELSE LET nl == {i \in 1..Len(s) : s[i] = "\n"}
         IN  IF nl = {} THEN <<s>>
             ELSE LET i == CHOOSE k \in nl : \A j \in nl : k <= j
                      raw == SubSeq(s, 1, i - 1)
                      line == IF Len(raw) > 0 /\ raw[Len(raw)] = "\r"
                              THEN SubSeq(raw, 1, Len(raw) - 1) ELSE raw
                  IN  <<line>> \o lines(SubSeq(s, i + 1, Len(s)))

IsSpace(c) == c \in {" ", "\t", "\r", "\n", "\f"}

\* str::trim
trim(s) ==
    LET keep == {i \in 1..Len(s) : ~IsSpace(s[i])}
    IN  IF keep = {} THEN <<>>
        ELSE LET lo == CHOOSE i \in keep : \A j \in keep : i <= j
                 hi == CHOOSE i \in keep : \A j \in keep : j <= i
             IN  SubSeq(s, lo, hi)

SlashFamily ==
    { <<"r", "s">>, <<"c">>, <<"c", "p", "p">>, <<"h">>, <<"h", "p", "p">>, <<"j", "s">>,
      <<"j", "s", "x">>, <<"t", "s">>, <<"t", "s", "x">>, <<"j", "a", "v", "a">>,
      <<"c", "s">>, <<"g", "o">>, <<"s", "w", "i", "f", "t">> }
HashFamily ==
    { <<"p", "y">>, <<"r", "b">>, <<"s", "h">>, <<"b", "a", "s", "h">>, <<"y", "m", "l">>,
      <<"y", "a", "m", "l">> }
MarkupFamily == { <<"h", "t", "m", "l">>, <<"x", "m", "l">>, <<"s", "v", "g">> }
StyleFamily == { <<"c", "s", "s">>, <<"s", "c", "s", "s">>, <<"s", "a", "s", "s">> }

\* Determines if a line is likely a comment based on file extension
is_likely_comment(line, path) ==
    LET e == extension(file_name(path))
        ext == to_lowercase(e.val)
    IN  /\ e.some
        /\ \/ /\ ext \in SlashFamily \cup StyleFamily
              /\ \/ starts_with(line, <<"/", "/">>)
                 \/ starts_with(line, <<"/", "*">>)
                 \/ starts_with(line, <<"*">>)
                 \/ starts_with(line, <<"*", "/">>)
           \/ /\ ext \in HashFamily
              /\ starts_with(line, <<"#">>)
           \/ /\ ext \in MarkupFamily
              /\ \/ starts_with(line, <<"<", "!", "-", "-">>)
                 \/ contains(line, <<"-", "-", ">">>)

SuffixSensitive_Never(path) == FALSE

\* The filename-suffix test of add_file and of might_contain_sensitive_info
SuffixSensitive(path) ==
    \E i \in 1..Len(SENSITIVE_FILES) : ends_with(file_name(path), SENSITIVE_FILES[i])

might_contain_sensitive_info_Exact(path) == InList(SENSITIVE_FILES, file_name(path))

\* Checks if a file might contain sensitive information
might_contain_sensitive_info(path) == SuffixSensitive(path)

\* How many entries the largest-files list keeps.
TopN == 10

\* slice::sort_by(|a, b| b.1.cmp(&a.1)): a stable sort, larger sizes first.
InsertBySize(sorted, e) ==
    LET k == Cardinality({i \in 1..Len(sorted) : sorted[i].size >= e.size})
    IN  SubSeq(sorted, 1, k) \o <<e>> \o SubSeq(sorted, k + 1, Len(sorted))
RECURSIVE SortBySizeDesc(_)
SortBySizeDesc(s) ==
    IF Len(s) = 0 THEN <<>>
    ELSE InsertBySize(SortBySizeDesc(SubSeq(s, 1, Len(s) - 1)), s[Len(s)])

truncate_Never(s, n) == s

truncate_Tail(s, n) == IF Len(s) > n THEN SubSeq(s, Len(s) - n + 1, Len(s)) ELSE s

\* Vec::truncate
truncate(s, n) == IF Len(s) > n THEN SubSeq(s, 1, n) ELSE s

n_no_extension == <<"n", "o", "_", "e", "x", "t", "e", "n", "s", "i", "o", "n">>

\* ProjectStats::new
NewStats ==
    [ total_lines |-> 0, code_lines |-> 0, blank_lines |-> 0, comment_lines |-> 0,
      total_files |-> 0, files_by_extension |-> <<>>, lines_by_extension |-> <<>>,
      total_size_bytes |-> 0, total_content_size_bytes |-> 0, size_by_extension |-> <<>>,
      sensitive_files_count |-> 0, largest_files |-> <<>>, average_file_size |-> 0 ]

\* The line counts of one decoded content: total, blank and comment lines.
CountLines(content, path) ==
    LET ls == lines(content)
        blank == Cardinality({i \in 1..Len(ls) : Len(trim(ls[i])) = 0})
        comments == Cardinality({i \in 1..Len(ls) :
                        Len(trim(ls[i])) > 0 /\ is_likely_comment(trim(ls[i]), path)})
    IN  [line_count |-> Len(ls), blank |-> blank, comments |-> comments]

CodeLines_NoComments(c) == c.line_count - c.blank

\* The code lines of one content: what is neither blank nor a comment
CodeLines(c) == c.line_count - c.blank - c.comments

\* ProjectStats::add_file past its first test: the file is counted. probe and
\* read are what get_real_file_size and fs::read_to_string answer for the path.
count_file(s, path, probe, read) ==
    LET is_sensitive == SuffixSensitive(path)
        e == extension(file_name(path))
        file_size == IF probe.ok THEN probe.val ELSE 0
        ext_key == IF e.some THEN to_lowercase(e.val) ELSE n_no_extension
        c == CountLines(read.val, path)
        pushed == Append(s.largest_files, [path |-> path, size |-> file_size])
    IN  [ s EXCEPT
            !.total_files = @ + 1,
            !.sensitive_files_count = IF is_sensitive THEN @ + 1 ELSE @,
            !.files_by_extension = IF e.some THEN MapAdd(@, to_lowercase(e.val), 1) ELSE @,
            !.total_size_bytes = @ + file_size,
            !.size_by_extension = MapAdd(@, ext_key, file_size),
            !.total_content_size_bytes = IF read.ok THEN @ + Len(read.val) ELSE @,
            !.total_lines = IF read.ok THEN @ + c.line_count ELSE @,
            !.lines_by_extension = IF read.ok THEN MapAdd(@, ext_key, c.line_count) ELSE @,
            !.blank_lines = IF read.ok THEN @ + c.blank ELSE @,
            !.comment_lines = IF read.ok THEN @ + c.comments ELSE @,
            !.code_lines = IF read.ok THEN @ + CodeLines(c) ELSE @,
            !.largest_files = truncate(SortBySizeDesc(pushed), TopN) ]

add_file_Unchecked(s, path, present, probe, read) == count_file(s, path, probe, read)

\* ProjectStats::add_file. present is what Path::exists answers for the path:
\* a path that does not exist is left out without a word.
add_file(s, path, present, probe, read) ==
    IF ~present THEN s ELSE count_file(s, path, probe, read)

\* add_file on a path of the tree
add_file_at(s, forest, path) ==
    LET node == Lookup(forest, path)
    IN  add_file(s, path, exists(node), get_real_file_size(node), read_to_string(node))

\* ---------------------------------------------------------------- project detection
n_package_json == <<"p", "a", "c", "k", "a", "g", "e", ".", "j", "s", "o", "n">>
n_setup_py == <<"s", "e", "t", "u", "p", ".", "p", "y">>
n_requirements_txt ==
    <<"r", "e", "q", "u", "i", "r", "e", "m", "e", "n", "t", "s", ".", "t", "x", "t">>
n_pyproject_toml == <<"p", "y", "p", "r", "o", "j", "e", "c", "t", ".", "t", "o", "m", "l">>
n_pom_xml == <<"p", "o", "m", ".", "x", "m", "l">>
n_build_gradle == <<"b", "u", "i", "l", "d", ".", "g", "r", "a", "d", "l", "e">>
n_build_gradle_kts ==
    <<"b", "u", "i", "l", "d", ".", "g", "r", "a", "d", "l", "e", ".", "k", "t", "s">>
n_go_mod == <<"g", "o", ".", "m", "o", "d">>
n_Gemfile == <<"G", "e", "m", "f", "i", "l", "e">>
n_composer_json == <<"c", "o", "m", "p", "o", "s", "e", "r", ".", "j", "s", "o", "n">>
n_csproj == <<"c", "s", "p", "r", "o", "j">>
n_fsproj == <<"f", "s", "p", "r", "o", "j">>
n_node_modules == <<"n", "o", "d", "e", "_", "m", "o", "d", "u", "l", "e", "s">>
n_dist == <<"d", "i", "s", "t">>
n_build == <<"b", "u", "i", "l", "d">>
n_pycache == <<"_", "_", "p", "y", "c", "a", "c", "h", "e", "_", "_">>
n_pytest_cache == <<".", "p", "y", "t", "e", "s", "t", "_", "c", "a", "c", "h", "e">>
n_venv == <<"v", "e", "n", "v">>
n_gradle == <<".", "g", "r", "a", "d", "l", "e">>
n_bin == <<"b", "i", "n">>
n_obj == <<"o", "b", "j">>
n_vendor == <<"v", "e", "n", "d", "o", "r">>
n_assets == <<"a", "s", "s", "e", "t", "s">>
n_asset == <<"a", "s", "s", "e", "t">>
n_public == <<"p", "u", "b", "l", "i", "c">>

\* ExcludedStats::new
NewExcludedStats ==
    [total_excluded_size |-> 0, excluded_directories |-> <<>>, excluded_files |-> <<>>]

NewDetector_NoBase ==
    [excluded_dirs |-> {}, project_types |-> {}, frameworks |-> <<>>,
     excluded_stats |-> NewExcludedStats]

\* ProjectDetector::new: the base exclusions, nothing detected
NewDetector ==
    [ excluded_dirs |-> {BASE_EXCLUDED_DIRS[i] : i \in 1..Len(BASE_EXCLUDED_DIRS)},
      project_types |-> {},
      frameworks |-> <<>>,
      excluded_stats |-> NewExcludedStats ]

\* root_dir.join(name).exists()
RootHas(root, name) == name \in DOMAIN root /\ exists(root[name])

\* The ecosystems detect_project_types checks, in its order: the test on the root,
\* the label inserted and the directory names added to the exclusions.
has_csproj(root) ==
    \E n \in DOMAIN root :
        LET e == extension(n) IN e.some /\ (e.val = n_csproj \/ e.val = n_fsproj)

Ecosystems(root) ==
    << [found |-> RootHas(root, n_Cargo_toml), label |-> "Rust", dirs |-> {n_target}],
       [found |-> RootHas(root, n_package_json), label |-> "JavaScript/Node.js",
        dirs |-> {n_node_modules, n_dist, n_build}],
       [found |-> \/ RootHas(root, n_setup_py)
                  \/ RootHas(root, n_requirements_txt)
                  \/ RootHas(root, n_pyproject_toml),
        label |-> "Python",
        dirs |-> {n_pycache, n_pytest_cache, n_venv, n_dist, n_build}],
       [found |-> RootHas(root, n_pom_xml), label |-> "Java/Maven", dirs |-> {n_target}],
       [found |-> RootHas(root, n_build_gradle) \/ RootHas(root, n_build_gradle_kts),
        label |-> "Java/Gradle", dirs |-> {n_build, n_gradle}],
       [found |-> has_csproj(root), label |-> ".NET", dirs |-> {n_bin, n_obj}],
       [found |-> RootHas(root, n_go_mod), label |-> "Go", dirs |-> {n_vendor}],
       [found |-> RootHas(root, n_Gemfile), label |-> "Ruby", dirs |-> {}],
       [found |-> RootHas(root, n_composer_json), label |-> "PHP", dirs |-> {n_vendor}] >>

\* Directory names excluded for all projects
CommonExcludedDirs == {n_assets, n_asset, n_public, n_bin}

\* ---------------------------------------------------------------- framework detection
n_manage_py == <<"m", "a", "n", "a", "g", "e", ".", "p", "y">>
n_settings_py == <<"s", "e", "t", "t", "i", "n", "g", "s", ".", "p", "y">>
n_config == <<"c", "o", "n", "f", "i", "g">>
n_routes_rb == <<"r", "o", "u", "t", "e", "s", ".", "r", "b">>
n_artisan == <<"a", "r", "t", "i", "s", "a", "n">>
n_console == <<"c", "o", "n", "s", "o", "l", "e">>
n_Kernel_php == <<"K", "e", "r", "n", "e", "l", ".", "p", "h", "p">>

\* The double quote of a text, and the version recorded when none is found.
QUOTE == "quote"
UnknownVersion == <<"?">>

\* HashMap::insert
MapPut(m, k, v) == [x \in DOMAIN m \cup {k} |-> IF x = k THEN v ELSE m[x]]

\* The first position from j on that holds no white space (\s* of the pattern).
SkipSpaces(json, j) ==
    LET rest == {k \in j..Len(json) : ~IsSpace(json[k])}
    IN  IF rest = {} THEN Len(json) + 1 ELSE CHOOSE k \in rest : \A m \in rest : k <= m

\* The pattern "dep"\s*:\s*"([^"]+)" matched at position i: the captured value.
MatchAt(json, i, dep) ==
    LET name == <<QUOTE>> \o dep \o <<QUOTE>>
        colon == SkipSpaces(json, i + Len(name))
        open == SkipSpaces(json, colon + 1)
        quotes == {k \in (open + 1)..Len(json) : json[k] = QUOTE}
        close == IF quotes = {} THEN 0 ELSE CHOOSE k \in quotes : \A m \in quotes : k <= m
    IN  IF /\ i + Len(name) - 1 <= Len(json)
           /\ SubSeq(json, i, i + Len(name) - 1) = name
           /\ colon <= Len(json) /\ json[colon] = ":"
           /\ open <= Len(json) /\ json[open] = QUOTE
           /\ close > open + 1
        THEN Some(SubSeq(json, open + 1, close - 1))
        ELSE None

extract_version_Last(json, dep) ==
    LET hits == {i \in 1..Len(json) : MatchAt(json, i, dep).some}
    IN  IF hits = {} THEN None
        ELSE MatchAt(json, CHOOSE i \in hits : \A j \in hits : j <= i, dep)

\* extract_version: the capture of the leftmost match of the pattern
extract_version(json, dep) ==
    LET hits == {i \in 1..Len(json) : MatchAt(json, i, dep).some}
    IN  IF hits = {} THEN None
        ELSE MatchAt(json, CHOOSE i \in hits : \A j \in hits : i <= j, dep)

\* The frameworks detect_js_frameworks looks for: the label inserted and the
\* dependency names, in the order their versions are tried.
JsFrameworks ==
    << [label |-> "React", deps |-> << <<"r", "e", "a", "c", "t">> >>],
       [label |-> "Vue.js", deps |-> << <<"v", "u", "e">> >>],
       [label |-> "Angular", deps |-> << <<"@", "a", "n", "g", "u", "l", "a", "r", "/", "c", "o", "r", "e">> >>],
       [label |-> "Next.js", deps |-> << <<"n", "e", "x", "t">> >>],
       [label |-> "Three.js", deps |-> << <<"t", "h", "r", "e", "e">> >>],
       [label |-> "Svelte", deps |-> << <<"s", "v", "e", "l", "t", "e">> >>],
       [label |-> "Tailwind CSS", deps |-> << <<"t", "a", "i", "l", "w", "i", "n", "d", "c", "s", "s">> >>],
       [label |-> "Material UI", deps |-> << <<"@", "m", "u", "i", "/", "m", "a", "t", "e", "r", "i", "a", "l">>, <<"@", "m", "a", "t", "e", "r", "i", "a", "l", "-", "u", "i", "/", "c", "o", "r", "e">> >>],
       [label |-> "Bootstrap", deps |-> << <<"b", "o", "o", "t", "s", "t", "r", "a", "p">> >>],
       [label |-> "Chakra UI", deps |-> << <<"@", "c", "h", "a", "k", "r", "a", "-", "u", "i", "/", "r", "e", "a", "c", "t">> >>],
       [label |-> "Express.js", deps |-> << <<"e", "x", "p", "r", "e", "s", "s">> >>],
       [label |-> "NestJS", deps |-> << <<"@", "n", "e", "s", "t", "j", "s", "/", "c", "o", "r", "e">> >>],
       [label |-> "Fastify", deps |-> << <<"f", "a", "s", "t", "i", "f", "y">> >>],
       [label |-> "Redux", deps |-> << <<"r", "e", "d", "u", "x">> >>],
       [label |-> "MobX", deps |-> << <<"m", "o", "b", "x">> >>],
       [label |-> "Jest", deps |-> << <<"j", "e", "s", "t">> >>],
       [label |-> "Cypress", deps |-> << <<"c", "y", "p", "r", "e", "s", "s">> >>] >>

\* The version of the first dependency name that has one, the placeholder otherwise
RECURSIVE FirstVersion(_, _, _)
FirstVersion(json, deps, k) ==
    IF k > Len(deps) THEN UnknownVersion
    ELSE LET v == extract_version(json, deps[k])
         IN  IF v.some THEN v.val ELSE FirstVersion(json, deps, k + 1)

\* FrameworkDetection::detect_js_frameworks, over the first k rows
RECURSIVE detect_js_frameworks(_, _, _)
detect_js_frameworks(fw, package_json, k) ==
    IF k = 0 THEN fw
    ELSE LET prev == detect_js_frameworks(fw, package_json, k - 1)
             row == JsFrameworks[k]
             named == \E d \in 1..Len(row.deps) :
                          contains(package_json, <<QUOTE>> \o row.deps[d] \o <<QUOTE>>)
         IN  IF named THEN MapPut(prev, row.label, FirstVersion(package_json, row.deps, 1))
             ELSE prev

\* The words detect_python_frameworks looks for in requirements.txt
PythonFrameworks ==
    << [label |-> "Django", word |-> <<"d", "j", "a", "n", "g", "o">>],
       [label |-> "Flask", word |-> <<"f", "l", "a", "s", "k">>],
       [label |-> "FastAPI", word |-> <<"f", "a", "s", "t", "a", "p", "i">>],
       [label |-> "SQLAlchemy", word |-> <<"s", "q", "l", "a", "l", "c", "h", "e", "m", "y">>],
       [label |-> "Pytest", word |-> <<"p", "y", "t", "e", "s", "t">>] >>

\* The words detect_java_frameworks looks for in pom.xml
JavaFrameworks ==
    << [label |-> "Spring Boot", word |-> <<"s", "p", "r", "i", "n", "g", "-", "b", "o", "o", "t">>],
       [label |-> "Hibernate", word |-> <<"h", "i", "b", "e", "r", "n", "a", "t", "e">>] >>

\* The labels of a table whose word the content holds, inserted with the placeholder
RECURSIVE InsertByWord(_, _, _, _)
InsertByWord(fw, table, content, k) ==
    IF k = 0 THEN fw
    ELSE LET prev == InsertByWord(fw, table, content, k - 1)
         IN  IF contains(content, table[k].word)
             THEN MapPut(prev, table[k].label, UnknownVersion) ELSE prev

\* Path::exists of a path below the root
PathExists(root, path) == exists(Lookup(root, path))

\* manage.py next to a settings.py at the root or right below an entry of the root
DjangoLayout(root) ==
    /\ PathExists(root, <<n_manage_py>>)
    /\ \/ PathExists(root, <<n_settings_py>>)
       \/ \E n \in DOMAIN root : PathExists(root, <<n, n_settings_py>>)

detect_python_frameworks_WordsOnly(fw, root) ==
    LET req == Lookup(root, <<n_requirements_txt>>)
        read == read_to_string(req)
    IN  IF exists(req) /\ read.ok
        THEN InsertByWord(fw, PythonFrameworks, read.val, Len(PythonFrameworks))
        ELSE fw

\* FrameworkDetection::detect_python_frameworks
detect_python_frameworks(fw, root) ==
    LET req == Lookup(root, <<n_requirements_txt>>)
        read == read_to_string(req)
        byword == IF exists(req) /\ read.ok
                  THEN InsertByWord(fw, PythonFrameworks, read.val, Len(PythonFrameworks))
                  ELSE fw
    IN  IF DjangoLayout(root) THEN MapPut(byword, "Django", UnknownVersion) ELSE byword

\* FrameworkDetection::detect_java_frameworks with the content of pom.xml
detect_java_frameworks(fw, pom_xml) ==
    InsertByWord(fw, JavaFrameworks, pom_xml, Len(JavaFrameworks))

\* FrameworkDetection::detect_ruby_frameworks
detect_ruby_frameworks(fw, root) ==
    IF PathExists(root, <<n_config, n_routes_rb>>)
    THEN MapPut(fw, "Ruby on Rails", UnknownVersion) ELSE fw

\* FrameworkDetection::detect_php_frameworks
detect_php_frameworks(fw, root) ==
    LET laravel == IF PathExists(root, <<n_artisan>>)
                   THEN MapPut(fw, "Laravel", UnknownVersion) ELSE fw
    IN  IF /\ PathExists(root, <<n_bin, n_console>>)
           /\ PathExists(root, <<n_config>>)
           /\ PathExists(root, <<n_src, n_Kernel_php>>)
        THEN MapPut(laravel, "Symfony", UnknownVersion) ELSE laravel

\* The paths WalkDir yields below a directory, down to a depth: entries it
\* cannot resolve are dropped, only directories are entered.
RECURSIVE WalkPaths(_, _)
WalkPaths(forest, max_depth) ==
    IF max_depth = 0 THEN {}
    ELSE UNION { IF forest[n].kind = "lost" THEN {}
                 ELSE {<<n>>} \cup
                      (IF forest[n].kind = "dir"
                       THEN {<<n>> \o p : p \in WalkPaths(forest[n].children, max_depth - 1)}
                       ELSE {}) : n \in DOMAIN forest }

\* FrameworkDetection::detect_dotnet_frameworks
detect_dotnet_frameworks(fw, root) ==
    LET projects == {p \in WalkPaths(root, 3) :
                        LET e == extension(file_name(p)) IN e.some /\ e.val = n_csproj}
        aspnet == \E p \in projects :
                      LET read == read_to_string(Lookup(root, p))
                      IN  read.ok /\ contains(read.val, <<"M", "i", "c", "r", "o", "s", "o", "f", "t", ".", "A", "s", "p", "N", "e", "t", "C", "o", "r", "e">>)
    IN  IF aspnet THEN MapPut(fw, "ASP.NET Core", UnknownVersion) ELSE fw

\* The framework detectors detect_project_types calls, in its order
detect_frameworks(fw, root) ==
    LET pkg == read_to_string(Lookup(root, <<n_package_json>>))
        js == IF RootHas(root, n_package_json) /\ pkg.ok
              THEN detect_js_frameworks(fw, pkg.val, Len(JsFrameworks)) ELSE fw
        py == IF \/ RootHas(root, n_setup_py)
                 \/ RootHas(root, n_requirements_txt)
                 \/ RootHas(root, n_pyproject_toml)
              THEN detect_python_frameworks(js, root) ELSE js
        pom == read_to_string(Lookup(root, <<n_pom_xml>>))
        java == IF RootHas(root, n_pom_xml) /\ pom.ok
                THEN detect_java_frameworks(py, pom.val) ELSE py
        net == IF has_csproj(root) THEN detect_dotnet_frameworks(java, root) ELSE java
        ruby == IF RootHas(root, n_Gemfile) THEN detect_ruby_frameworks(net, root) ELSE net
    IN  IF RootHas(root, n_composer_json) THEN detect_php_frameworks(ruby, root) ELSE ruby

\* ---------------------------------------------------------------- project detection, the call
detect_project_types_LabelsOnly(det, root) ==
    LET eco == Ecosystems(root)
    IN  [ det EXCEPT
            !.project_types = @ \cup {eco[i].label : i \in {j \in 1..Len(eco) : eco[j].found}},
            !.excluded_dirs = @ \cup CommonExcludedDirs ]

detect_project_types_Reset(det, root) ==
    LET eco == Ecosystems(root)
        hit == {i \in 1..Len(eco) : eco[i].found}
    IN  [ det EXCEPT
            !.project_types = {eco[i].label : i \in hit},
            !.excluded_dirs = UNION {eco[i].dirs : i \in hit} \cup CommonExcludedDirs ]

\* ProjectDetector::detect_project_types
detect_project_types(det, root) ==
    LET eco == Ecosystems(root)
        hit == {i \in 1..Len(eco) : eco[i].found}
    IN  [ det EXCEPT
            !.project_types = @ \cup {eco[i].label : i \in hit},
            !.frameworks = detect_frameworks(@, root),
            !.excluded_dirs = @ \cup UNION {eco[i].dirs : i \in hit} \cup CommonExcludedDirs ]

\* ProjectDetector::is_excluded_dir
is_excluded_dir(det, dir_name) == dir_name \in det.excluded_dirs

\* Checks if a directory entry should be excluded based on project detector
is_excluded(node, name, det) ==
    IF node.kind = "dir" THEN is_excluded_dir(det, name) ELSE FALSE

is_excluded_file_Never(path) == FALSE

is_excluded_file_Shortened(path) ==
    InList(SubSeq(EXCLUDED_FILES, 3, Len(EXCLUDED_FILES)), file_name(path))

\* Checks if a file should be excluded
is_excluded_file(path) == InList(EXCLUDED_FILES, file_name(path))

get_exclusion_reason_TableFirst(dir_name, det) ==
    IF dir_name \in det.excluded_dirs THEN
        CASE dir_name = n_target -> "Rust/Java build directory"
          [] dir_name = n_node_modules -> "Node.js dependencies"
          [] dir_name \in {n_dist, n_build} -> "Build output directory"
          [] dir_name = n_pycache -> "Python cache directory"
          [] dir_name = n_pytest_cache -> "Pytest cache directory"
          [] dir_name = n_venv -> "Python virtual environment"
          [] dir_name = n_gradle -> "Gradle cache directory"
          [] dir_name \in {n_bin, n_obj} -> ".NET build directory"
          [] dir_name = n_vendor -> "Dependencies directory"
          [] dir_name \in {n_assets, n_asset, n_public} -> "Static assets directory"
          [] InList(BASE_EXCLUDED_DIRS, dir_name) -> "Base excluded directory"
          [] OTHER -> "Project-specific excluded directory"
    ELSE "Unknown exclusion reason"

\* Gets the exclusion reason for a directory
get_exclusion_reason(dir_name, det) ==
    IF InList(BASE_EXCLUDED_DIRS, dir_name) THEN "Base excluded directory"
    ELSE IF dir_name \in det.excluded_dirs THEN
        CASE dir_name = n_target -> "Rust/Java build directory"
          [] dir_name = n_node_modules -> "Node.js dependencies"
          [] dir_name \in {n_dist, n_build} -> "Build output directory"
          [] dir_name = n_pycache -> "Python cache directory"
          [] dir_name = n_pytest_cache -> "Pytest cache directory"
          [] dir_name = n_venv -> "Python virtual environment"
          [] dir_name = n_gradle -> "Gradle cache directory"
          [] dir_name \in {n_bin, n_obj} -> ".NET build directory"
          [] dir_name = n_vendor -> "Dependencies directory"
          [] dir_name \in {n_assets, n_asset, n_public} -> "Static assets directory"
          [] OTHER -> "Project-specific excluded directory"
    ELSE "Unknown exclusion reason"

\* The name patterns of get_file_exclusion_reason with their reasons, in match order.
FileReasonTable ==
    << [names |-> { <<".", "D", "S", "_", "S", "t", "o", "r", "e">> },
          reason |-> "macOS system file"],
       [names |-> { <<".", "e", "n", "v">>,
                     <<".", "e", "n", "v", ".", "l", "o", "c", "a", "l">>,
                     <<".", "e", "n", "v", ".", "d", "e", "v", "e", "l", "o", "p", "m", "e", "n", "t">>,
                     <<".", "e", "n", "v", ".", "p", "r", "o", "d", "u", "c", "t", "i", "o", "n">>,
                     <<".", "e", "n", "v", ".", "t", "e", "s", "t">> },
          reason |-> "Environment configuration file"],
       [names |-> { <<".", "e", "s", "l", "i", "n", "t", "r", "c", ".", "j", "s", "o", "n">>,
                     <<"e", "s", "l", "i", "n", "t", ".", "c", "o", "n", "f", "i", "g", ".", "j", "s">> },
          reason |-> "ESLint configuration"],
       [names |-> { <<".", "g", "i", "t", "i", "g", "n", "o", "r", "e">>,
                     <<".", "n", "p", "m", "i", "g", "n", "o", "r", "e">> },
          reason |-> "Version control ignore file"],
       [names |-> { <<"C", "a", "r", "g", "o", ".", "l", "o", "c", "k">>,
                     <<"p", "a", "c", "k", "a", "g", "e", "-", "l", "o", "c", "k", ".", "j", "s", "o", "n">>,
                     <<"p", "n", "p", "m", "-", "l", "o", "c", "k", ".", "y", "a", "m", "l">>,
                     <<"y", "a", "r", "n", ".", "l", "o", "c", "k">> },
          reason |-> "Dependency lock file"],
       [names |-> { <<"f", "a", "v", "i", "c", "o", "n", ".", "i", "c", "o">> },
          reason |-> "Website icon file"],
       [names |-> { <<"g", "l", "o", "b", "a", "l", "s", ".", "c", "s", "s">> },
          reason |-> "Global CSS file"],
       [names |-> { <<"n", "e", "x", "t", ".", "c", "o", "n", "f", "i", "g", ".", "m", "j", "s">>,
                     <<"n", "e", "x", "t", "-", "e", "n", "v", ".", "d", ".", "t", "s">> },
          reason |-> "Next.js configuration"],
       [names |-> { <<"p", "o", "s", "t", "c", "s", "s", ".", "c", "o", "n", "f", "i", "g", ".", "j", "s">>,
                     <<"p", "o", "s", "t", "c", "s", "s", ".", "c", "o", "n", "f", "i", "g", ".", "m", "j", "s">> },
          reason |-> "PostCSS configuration"],
       [names |-> { <<"R", "E", "A", "D", "M", "E", ".", "m", "d">> },
          reason |-> "Documentation file"],
       [names |-> { <<"t", "a", "i", "l", "w", "i", "n", "d", ".", "c", "o", "n", "f", "i", "g", ".", "j", "s">>,
                     <<"t", "a", "i", "l", "w", "i", "n", "d", ".", "c", "o", "n", "f", "i", "g", ".", "t", "s">> },
          reason |-> "Tailwind CSS configuration"],
       [names |-> { <<"t", "s", "c", "o", "n", "f", "i", "g", ".", "a", "p", "p", ".", "j", "s", "o", "n">>,
                     <<"t", "s", "c", "o", "n", "f", "i", "g", ".", "n", "o", "d", "e", ".", "j", "s", "o", "n">>,
                     <<"t", "s", "c", "o", "n", "f", "i", "g", ".", "j", "s", "o", "n">> },
          reason |-> "TypeScript configuration"],
       [names |-> { <<"t", "h", "u", "m", "b", "s", ".", "d", "b">> },
          reason |-> "Windows thumbnail cache"],
       [names |-> { <<"v", "i", "t", "e", ".", "c", "o", "n", "f", "i", "g", ".", "t", "s">> },
          reason |-> "Vite configuration"] >>

\* Gets the exclusion reason for a file
get_file_exclusion_reason(name) ==
    LET hit == {i \in 1..Len(FileReasonTable) : name \in FileReasonTable[i].names}
    IN  IF hit = {} THEN "Configuration/system file"
        ELSE FileReasonTable[CHOOSE i \in hit : \A j \in hit : i <= j].reason

\* ---------------------------------------------------------------- the walk
\* The invocation name of the executable (env::args().next()) and the default
\* output base name.
script_name == n_codetree
output_name == n_codetree

\* OutputGenerator::file_extension of the generator get_generator picks
file_extension(fmt) ==
    CASE fmt = "Text" -> <<"t", "x", "t">>
      [] fmt = "Json" -> <<"j", "s", "o", "n">>
      [] fmt = "Markdown" -> <<"m", "d">>
      [] fmt = "Html" -> <<"h", "t", "m", "l">>

\* format!("{}.{}", output_name, get_generator(&format).file_extension())
output_file_name(fmt) == output_name \o <<".">> \o file_extension(fmt)

\* The three glyphs of the tree text, each a single element of a line.
VBAR == "|   "
ELBOW == "'-- "
TEE == "|-- "

\* "│   ".repeat(depth)
indent(depth) == [i \in 1..depth |-> VBAR]

\* format!("{}└── ", "│   ".repeat(depth - 1)) below the root, empty at the root
last_indent(depth) == IF depth > 0 THEN [i \in 1..(depth - 1) |-> VBAR] \o <<ELBOW>> ELSE <<>>

\* format!("{}{}{}/\n", ...) for a directory, format!("{}{}{}\n", ...) for a file
TreeLine(depth, is_last, name, is_dir) ==
    (IF is_last THEN last_indent(depth) ELSE indent(depth))
        \o <<IF is_last THEN ELBOW ELSE TEE>>
        \o name
        \o (IF is_dir THEN <<"/">> ELSE <<>>)

ReadDir_Unfiltered(forest, dir) ==
    IF Len(dir) = 0 THEN forest ELSE Lookup(forest, dir).children

\* The entries of the directory at path dir that the listing resolves, as a
\* function from names to nodes: filter_map(|e| e.ok()) drops the others.
ReadDir(forest, dir) ==
    LET all == IF Len(dir) = 0 THEN forest ELSE Lookup(forest, dir).children
    IN  [n \in {m \in DOMAIN all : all[m].kind # "lost"} |-> all[n]]

\* The orders in which a directory listing may return the entries of a set.
Listings(S) ==
    {s \in [1..Cardinality(S) -> S] : \A a \in S : \E i \in 1..Cardinality(S) : s[i] = a}

calculate_directory_size_TopOnly(node) ==
    LET top == {n \in DOMAIN node.children : node.children[n].kind = "file"}
    IN  [size |-> 0, file_count |-> Cardinality(top)]

\* Calculates the total size and file count of a directory recursively: every
\* regular file beneath it, no exclusion applied, links not followed.
RECURSIVE calculate_directory_size(_)
calculate_directory_size(node) ==
    IF node.kind = "file"
    THEN [size |-> LET p == get_real_file_size(node) IN IF p.ok THEN p.val ELSE 0,
          file_count |-> 1]
    ELSE IF node.kind # "dir" \/ DOMAIN node.children = {}
    THEN [size |-> 0, file_count |-> 0]
    ELSE LET n == CHOOSE x \in DOMAIN node.children : TRUE
             one == calculate_directory_size(node.children[n])
             rest == calculate_directory_size(
                         DirNode([x \in DOMAIN node.children \ {n} |-> node.children[x]]))
         IN  [size |-> one.size + rest.size, file_count |-> one.file_count + rest.file_count]

\* ExcludedStats::add_excluded_directory
add_excluded_directory(es, path, size, file_count, reason) ==
    [ es EXCEPT
        !.total_excluded_size = @ + size,
        !.excluded_directories =
            Append(@, [path |-> path, size |-> size, file_count |-> file_count,
                       reason |-> reason]) ]

add_excluded_file_NoTotal(es, path, size, reason) ==
    [ es EXCEPT
        !.excluded_files = Append(@, [path |-> path, size |-> size, reason |-> reason]) ]

\* ExcludedStats::add_excluded_file
add_excluded_file(es, path, size, reason) ==
    [ es EXCEPT
        !.total_excluded_size = @ + size,
        !.excluded_files = Append(@, [path |-> path, size |-> size, reason |-> reason]) ]

\* The loop that separates included and excluded entries, over the first k
\* entries of the listing: the detector with its exclusion records, and the
\* names kept.
RECURSIVE FilterEntries(_, _, _, _, _)
FilterEntries(order, children, dir, det, k) ==
    IF k = 0 THEN [det |-> det, entries |-> <<>>]
    ELSE
    LET prev == FilterEntries(order, children, dir, det, k - 1)
        name == order[k]
        node == children[name]
        path == Append(dir, name)
    IN  IF is_excluded(node, name, prev.det) THEN
            IF node.kind = "dir" THEN
                LET tot == calculate_directory_size(node)
                    reason == get_exclusion_reason(name, prev.det)
                IN  [prev EXCEPT !.det.excluded_stats =
                        add_excluded_directory(@, path, tot.size, tot.file_count, reason)]
            ELSE prev
        ELSE IF is_excluded_file(path) THEN
            LET probe == get_real_file_size(node)
            IN  IF probe.ok
                THEN [prev EXCEPT !.det.excluded_stats =
                        add_excluded_file(@, path, probe.val, get_file_exclusion_reason(name))]
                ELSE prev
        ELSE [prev EXCEPT !.entries = Append(@, name)]

KeyLess_KindOnly(a, b, children) ==
    children[a].kind = "dir" /\ children[b].kind # "dir"

\* The sort key (!is_dir, name): directories first, then by name.
KeyLess(a, b, children) ==
    LET da == children[a].kind = "dir"
        db == children[b].kind = "dir"
    IN  \/ da /\ ~db
        \/ da = db /\ StrLess(a, b)

InsertByKey_Append(sorted, e, children) == Append(sorted, e)

\* entries.sort_by_key(...): a stable sort by the key
InsertByKey(sorted, e, children) ==
    LET gt == {i \in 1..Len(sorted) : KeyLess(e, sorted[i], children)}
        pos == IF gt = {} THEN Len(sorted) + 1 ELSE CHOOSE i \in gt : \A j \in gt : i <= j
    IN  SubSeq(sorted, 1, pos - 1) \o <<e>> \o SubSeq(sorted, pos, Len(sorted))
RECURSIVE sort_by_key(_, _)
sort_by_key(s, children) ==
    IF Len(s) = 0 THEN <<>>
    ELSE InsertByKey(sort_by_key(SubSeq(s, 1, Len(s) - 1), children), s[Len(s)], children)

\* The head of get_file_tree_and_contents for the directory dir, listed in the
\* given order: the exclusion records added and the frame of the entry loop.
EnterDir(forest, dir, depth, det, order) ==
    LET children == ReadDir(forest, dir)
        kept == FilterEntries(order, children, dir, det, Len(order))
    IN  [ det |-> kept.det,
          frame |-> [dir |-> dir, depth |-> depth,
                     entries |-> sort_by_key(kept.entries, children), i |-> 1] ]

\* ---------------------------------------------------------------- state
VARIABLES
    pc,               \* where main is: "start", "detected", "walking", "walked",
                      \* "collected", "generated", "writing", "done" or "failed";
                      \* "stats" for add_file called on its own
    fs,               \* the directory tree below start_dir
    format,           \* the chosen OutputFormat
    project_detector, \* ProjectDetector: exclusions, project types, exclusion records
    stats,            \* ProjectStats
    file_paths,       \* the paths of the surviving files, in walk order
    output,           \* the tree text, a sequence of lines; each line carries the
                      \* path of the entry it was written for
    stack,            \* the frames of the recursive get_file_tree_and_contents calls
    files,            \* the FileInfo entries main has collected
    counted,          \* the paths add_file counted (history)
    first,            \* the tree text and statistics of an earlier run, if any
    call,             \* the latest add_file call made on its own, if any: what it was
                      \* given and the statistics before it
    output_content,   \* the rendered report, once the generator has returned it
    tally,            \* how many files of each size add_file has counted (history)
    previous          \* what was at the output path when the run began (history)

vars ==
    <<pc, fs, format, project_detector, stats, file_paths, output, stack, files, counted,
      first, call, output_content, tally, previous>>

\* The formats a run may be started with.
FormatChoices == {"Text", "Json"}

Init ==
    /\ pc = "start"
    /\ fs \in TreesUpTo(MaxNodes)
    /\ format \in FormatChoices
    /\ project_detector = NewDetector
    /\ stats = NewStats
    /\ file_paths = <<>>
    /\ output = <<>>
    /\ stack = <<>>
    /\ files = <<>>
    /\ counted = <<>>
    /\ first = <<>>
    /\ call = <<>>
    /\ output_content = None
    /\ tally = <<>>
    /\ previous = Lookup(fs, <<output_file_name(format)>>)

\* main: project_detector.detect_project_types(&start_dir)
Detect ==
    /\ pc = "start"
    /\ project_detector' = detect_project_types(project_detector, fs)
    /\ pc' = "detected"
    /\ UNCHANGED <<fs, format, stats, file_paths, output, stack, files, counted, first,
                   call, output_content, tally, previous>>

\* main calls get_file_tree_and_contents(&start_dir, 0, ...): the root is listed,
\* its excluded entries are recorded, the kept ones sorted.
WalkStart ==
    /\ pc = "detected"
    /\ \E order \in Listings(DOMAIN ReadDir(fs, <<>>)) :
          LET e == EnterDir(fs, <<>>, 0, project_detector, order)
          IN  /\ project_detector' = e.det
              /\ stack' = <<e.frame>>
    /\ pc' = "walking"
    /\ UNCHANGED <<fs, format, stats, file_paths, output, files, counted, first,
                   call, output_content, tally, previous>>

Top == stack[Len(stack)]
TopName == Top.entries[Top.i]
TopPath == Append(Top.dir, TopName)
TopIsLast == Top.i = Len(Top.entries)
Advance(s) == [s EXCEPT ![Len(s)].i = @ + 1]
InLoop == pc = "walking" /\ Len(stack) > 0 /\ Top.i <= Len(Top.entries)

IsSkipped_ScriptOnly(name, fmt) == name = script_name

\* The names the entry loop always skips
IsSkipped(name, fmt) == name = script_name \/ name = output_file_name(fmt)

\* Entry loop: the entry is named as the executable or as the output file
SkipEntry ==
    /\ InLoop
    /\ IsSkipped(TopName, format)
    /\ stack' = Advance(stack)
    /\ UNCHANGED <<pc, fs, format, project_detector, stats, file_paths, output, files,
                   counted, first, call, output_content, tally, previous>>

\* Entry loop: a directory gets its line and is walked by a recursive call
VisitDir ==
    /\ InLoop
    /\ ~IsSkipped(TopName, format)
    /\ Lookup(fs, TopPath).kind = "dir"
    /\ output' = Append(output,
                    [text |-> TreeLine(Top.depth, TopIsLast, TopName, TRUE), path |-> TopPath])
    /\ \E order \in Listings(DOMAIN ReadDir(fs, TopPath)) :
          LET e == EnterDir(fs, TopPath, Top.depth + 1, project_detector, order)
          IN  /\ project_detector' = e.det
              /\ stack' = Append(Advance(stack), e.frame)
    /\ UNCHANGED <<pc, fs, format, stats, file_paths, files, counted, first,
                   call, output_content, tally, previous>>

\* Entry loop: anything else gets its line, is appended to the file paths and is
\* handed to add_file
VisitFile ==
    /\ InLoop
    /\ ~IsSkipped(TopName, format)
    /\ Lookup(fs, TopPath).kind # "dir"
    /\ output' = Append(output,
                    [text |-> TreeLine(Top.depth, TopIsLast, TopName, FALSE), path |-> TopPath])
    /\ file_paths' = Append(file_paths, TopPath)
    /\ stats' = add_file_at(stats, fs, TopPath)
    /\ counted' = IF exists(Lookup(fs, TopPath)) THEN Append(counted, TopPath) ELSE counted
    /\ stack' = Advance(stack)
    /\ UNCHANGED <<pc, fs, format, project_detector, files, first, call, output_content,
                   tally, previous>>

\* The entry loop of a call is over: the call returns; the outermost call
\* returns to main.
Return ==
    /\ pc = "walking"
    /\ Len(stack) > 0
    /\ Top.i > Len(Top.entries)
    /\ stack' = SubSeq(stack, 1, Len(stack) - 1)
    /\ pc' = IF Len(stack) = 1 THEN "walked" ELSE "walking"
    /\ UNCHANGED <<fs, format, project_detector, stats, file_paths, output, files, counted,
                   first, call, output_content, tally, previous>>

\* One FileInfo of main's collection loop, for the file at path
FileInfo(forest, path) ==
    LET node == Lookup(forest, path)
        is_sensitive == might_contain_sensitive_info(path)
        meta == metadata_len(node)
        read == read_to_string(node)
        take == exists(node) /\ ~is_sensitive /\ read.ok
    IN  [ relative_path |-> path,
          content |-> IF take THEN Some(read.val) ELSE None,
          is_sensitive |-> is_sensitive,
          size_bytes |-> IF exists(node) /\ meta.ok THEN meta.val ELSE 0,
          line_count |-> IF take THEN Len(lines(read.val)) ELSE 0 ]

\* main: one iteration of the loop that collects file information
CollectFile ==
    /\ pc = "walked"
    /\ Len(files) < Len(file_paths)
    /\ files' = Append(files, FileInfo(fs, file_paths[Len(files) + 1]))
    /\ UNCHANGED <<pc, fs, format, project_detector, stats, file_paths, output, stack,
                   counted, first, call, output_content, tally, previous>>

\* main: the loop is over, the ProjectReport is built
BuildReport ==
    /\ pc = "walked"
    /\ Len(files) = Len(file_paths)
    /\ pc' = "collected"
    /\ UNCHANGED <<fs, format, project_detector, stats, file_paths, output, stack, files,
                   counted, first, call, output_content, tally, previous>>

RECURSIVE Concat(_)
Concat(seqs) == IF Len(seqs) = 0 THEN <<>> ELSE Head(seqs) \o Concat(Tail(seqs))

\* Path::display of a path below start_dir: its names joined by slashes
display(path) ==
    Concat([i \in DOMAIN path |-> IF i = 1 THEN path[i] ELSE <<"/">> \o path[i]])

\* The file tree as main hands it to the report: the lines, each ended by a
\* line feed.
file_tree(lines_out) == Concat([i \in DOMAIN lines_out |-> lines_out[i].text \o <<"\n">>])

\* What a generator makes of the report: a heading, the file tree and one
\* item per file entry.
render(tree, entries) ==
    <<"CODETREE PROJECT ANALYSIS", "\n">> \o tree
        \o Concat([i \in DOMAIN entries |-> <<"- ">> \o display(entries[i].relative_path)
                                               \o <<"\n">>])

\* Whether generator.generate can return an error: the text generator always
\* returns Ok, the JSON generator passes on what the serializer answers.
CanFail(fmt) == fmt # "Text"

Generate_BeforeCollection ==
    /\ pc = "walked"
    /\ output_content' = Some(render(file_tree(output), files))
    /\ pc' = "generated"
    /\ UNCHANGED <<fs, format, project_detector, stats, file_paths, output, stack, files,
                   counted, first, call, tally, previous>>

\* main: generator.generate(&report), an error ends the run
Generate ==
    /\ pc = "collected"
    /\ \/ /\ output_content' = Some(render(file_tree(output), files))
          /\ pc' = "generated"
       \/ /\ CanFail(format)
          /\ pc' = "failed"
          /\ UNCHANGED output_content
    /\ UNCHANGED <<fs, format, project_detector, stats, file_paths, output, stack, files,
                   counted, first, call, tally, previous>>

\* start_dir.join(format!("{}.{}", output_name, generator.file_extension()))
output_file_path(fmt) == <<output_file_name(fmt)>>

\* The tree without the entry of the root that has the given name
remove_file(forest, name) == [n \in DOMAIN forest \ {name} |-> forest[n]]

\* main: if output_file_path.exists() { fs::remove_file(&output_file_path)? }.
\* Removing a directory fails; removing a file may fail.
RemoveOutput ==
    /\ pc = "generated"
    /\ LET node == Lookup(fs, output_file_path(format))
       IN  IF ~exists(node)
           THEN pc' = "writing" /\ UNCHANGED fs
           ELSE \/ /\ node.kind = "file"
                   /\ fs' = remove_file(fs, output_file_name(format))
                   /\ pc' = "writing"
                \/ /\ pc' = "failed"
                   /\ UNCHANGED fs
    /\ UNCHANGED <<format, project_detector, stats, file_paths, output, stack, files,
                   counted, first, call, output_content, tally, previous>>

\* main: fs::write(&output_file_path, output_content)?. The file is created or
\* truncated and then filled: the call may fail before the file is created, or
\* after, leaving a file that is not the whole report.
WriteOutput ==
    /\ pc = "writing"
    /\ \/ /\ fs' = Extend(fs, output_file_name(format), TextFile(output_content.val))
          /\ pc' = "done"
       \/ /\ pc' = "failed"
          /\ UNCHANGED fs
       \/ /\ fs' = Extend(fs, output_file_name(format), TextFile(<<>>))
          /\ pc' = "failed"
    /\ UNCHANGED <<format, project_detector, stats, file_paths, output, stack, files,
                   counted, first, call, output_content, tally, previous>>

Walk == WalkStart \/ SkipEntry \/ VisitDir \/ VisitFile \/ Return

Next == Detect \/ Walk \/ CollectFile \/ BuildReport \/ Generate \/ RemoveOutput \/ WriteOutput

Spec == Init /\ [][Next]_vars

\* ---------------------------------------------------------------- a run over a faulty tree
InitFaulty ==
    /\ pc = "start"
    /\ fs \in FaultyForestsFrom(1, MaxNodes)
    /\ format \in FormatChoices
    /\ project_detector = NewDetector
    /\ stats = NewStats
    /\ file_paths = <<>>
    /\ output = <<>>
    /\ stack = <<>>
    /\ files = <<>>
    /\ counted = <<>>
    /\ first = <<>>
    /\ call = <<>>
    /\ output_content = None
    /\ tally = <<>>
    /\ previous = Lookup(fs, <<output_file_name(format)>>)

SpecFaulty == InitFaulty /\ [][Next]_vars

\* ---------------------------------------------------------------- a second run
\* The tool is started again on the same tree: what the first run produced is
\* kept for comparison, everything else starts afresh.
Rerun ==
    /\ pc = "walked"
    /\ first = <<>>
    /\ first' = <<[file_tree |-> [i \in DOMAIN output |-> output[i].text],
                   statistics |-> stats]>>
    /\ pc' = "start"
    /\ project_detector' = NewDetector
    /\ stats' = NewStats
    /\ file_paths' = <<>>
    /\ output' = <<>>
    /\ stack' = <<>>
    /\ counted' = <<>>
    /\ UNCHANGED <<fs, format, files, call, output_content, tally, previous>>

NextRerun == Detect \/ Walk \/ Rerun

SpecRerun == Init /\ [][NextRerun]_vars

\* ---------------------------------------------------------------- a run with a skipped entry added
\* A forest with one more entry in the directory a path names.
RECURSIVE PutAt(_, _, _, _)
PutAt(forest, dir, name, node) ==
    IF Len(dir) = 0 THEN Extend(forest, name, node)
    ELSE [forest EXCEPT ![dir[1]].children = PutAt(@, Tail(dir), name, node)]

\* What an entry named as the output file or as the executable is: a report an
\* earlier run wrote, the executable, or a directory of that name.
SkippedNodes == {TextFile(t_code), DirNode(EmptyForest)}

\* The directories a finished walk went through: the root and every directory
\* that got a line.
WalkedDirs ==
    {<<>>} \cup {output[i].path : i \in {j \in DOMAIN output :
                                            Lookup(fs, output[j].path).kind = "dir"}}

\* After a walk, an entry named as the output file or as the executable is put
\* into a directory the walk went through and the tool is started again: what
\* the first run produced is kept for comparison.
RerunWithSkipped ==
    /\ pc = "walked"
    /\ first = <<>>
    /\ \E d \in WalkedDirs :
       \E name \in {script_name, output_file_name(format)} :
       \E node \in SkippedNodes :
          /\ name \notin DOMAIN ReadDir(fs, d)
          /\ fs' = PutAt(fs, d, name, node)
          /\ previous' = Lookup(fs', <<output_file_name(format)>>)
    /\ first' = <<[file_tree |-> [i \in DOMAIN output |-> output[i].text],
                   file_paths |-> file_paths,
                   statistics |-> stats]>>
    /\ pc' = "start"
    /\ project_detector' = NewDetector
    /\ stats' = NewStats
    /\ file_paths' = <<>>
    /\ output' = <<>>
    /\ stack' = <<>>
    /\ counted' = <<>>
    /\ UNCHANGED <<format, files, call, output_content, tally>>

NextSkipped == Detect \/ Walk \/ RerunWithSkipped

\* The first run is over a tree with room for one more entry.
InitSkipped ==
    /\ pc = "start"
    /\ fs \in TreesUpTo(MaxNodes - 1)
    /\ format \in FormatChoices
    /\ project_detector = NewDetector
    /\ stats = NewStats
    /\ file_paths = <<>>
    /\ output = <<>>
    /\ stack = <<>>
    /\ files = <<>>
    /\ counted = <<>>
    /\ first = <<>>
    /\ call = <<>>
    /\ output_content = None
    /\ tally = <<>>
    /\ previous = Lookup(fs, <<output_file_name(format)>>)

SpecSkipped == InitSkipped /\ [][NextSkipped]_vars

\* ---------------------------------------------------------------- add_file alone
\* The most files a sequence of add_file calls counts.
MaxAdds == 11

t_mixed == <<"/", "/", " ", "c", "\n", "\n", "x", "\n">>
t_star == <<"*", "p", "\n">>

\* What add_file is called with: a path and the answers of the file system for it.
StatInputs ==
    { [path |-> <<n_src, n_a_rs>>, present |-> TRUE, probe |-> Ok(8), read |-> Ok(t_mixed)],
      [path |-> <<n_a_rs>>, present |-> FALSE, probe |-> Err, read |-> Err],
      [path |-> <<n_prod_env>>, present |-> TRUE, probe |-> Ok(5), read |-> Err],
      [path |-> <<n_codetree>>, present |-> TRUE, probe |-> Err, read |-> Err],
      [path |-> <<n_src, n_codetree>>, present |-> TRUE, probe |-> Ok(3), read |-> Ok(t_star)],
      [path |-> <<n_Cargo_toml>>, present |-> TRUE, probe |-> Ok(5), read |-> Ok(t_star)] }

StatsInit ==
    /\ pc = "stats"
    /\ fs = EmptyForest
    /\ format = "Text"
    /\ project_detector = NewDetector
    /\ stats = NewStats
    /\ file_paths = <<>>
    /\ output = <<>>
    /\ stack = <<>>
    /\ files = <<>>
    /\ counted = <<>>
    /\ first = <<>>
    /\ call = <<>>
    /\ output_content = None
    /\ tally = <<>>
    /\ previous = Lookup(fs, <<output_file_name(format)>>)

\* stats.add_file(path) on its own
AddFileCall ==
    /\ pc = "stats"
    /\ stats.total_files < MaxAdds
    /\ \E inp \in StatInputs :
          stats' = add_file(stats, inp.path, inp.present, inp.probe, inp.read)
    /\ UNCHANGED <<pc, fs, format, project_detector, file_paths, output, stack, files,
                   counted, first, call, output_content, tally, previous>>

StatsNext == AddFileCall

SpecStats == StatsInit /\ [][StatsNext]_vars

\* ---------------------------------------------------------------- add_file, size by size
\* One more file of a size in the tally
TallyAdd(t, size) ==
    [x \in DOMAIN t \cup {size} |-> IF x \in DOMAIN t THEN (IF x = size THEN t[x] + 1 ELSE t[x])
                                    ELSE 1]

\* stats.add_file(path) on its own, with the size of every file it counts kept
\* in the tally.
AddFileTallied ==
    /\ pc = "stats"
    /\ stats.total_files < MaxAdds
    /\ \E inp \in StatInputs :
          /\ stats' = add_file(stats, inp.path, inp.present, inp.probe, inp.read)
          /\ tally' = IF inp.present
                      THEN TallyAdd(tally, IF inp.probe.ok THEN inp.probe.val ELSE 0)
                      ELSE tally
    /\ UNCHANGED <<pc, fs, format, project_detector, file_paths, output, stack, files,
                   counted, first, call, output_content, previous>>

TalliedNext == AddFileTallied

SpecTallied == StatsInit /\ [][TalliedNext]_vars

\* ---------------------------------------------------------------- add_file, call by call
\* The most files a sequence of recorded add_file calls counts.
MaxCalls == 4

\* stats.add_file(path) on its own, with the call kept: what it was given and
\* the statistics it found.
AddFileRecorded ==
    /\ pc = "stats"
    /\ stats.total_files < MaxCalls
    /\ \E inp \in StatInputs :
          /\ stats' = add_file(stats, inp.path, inp.present, inp.probe, inp.read)
          /\ call' = <<[given |-> inp, before |-> stats]>>
    /\ UNCHANGED <<pc, fs, format, project_detector, file_paths, output, stack, files,
                   counted, first, output_content, tally, previous>>

CallNext == AddFileRecorded

SpecCall == StatsInit /\ [][CallNext]_vars

\* ---------------------------------------------------------------- detection alone
\* The texts of package.json and requirements.txt the detection is run on.
\* one entry for react
t_react_pair ==
    << "{", "quote", "d", "e", "p", "e", "n", "d", "e", "n", "c", "i", "e", "s",
       "quote", ":", " ", "{", "quote", "r", "e", "a", "c", "t", "quote", ":", " ",
       "quote", "1", "8", ".", "2", ".", "0", "quote", "}", "}" >>
\* react as a peer dependency, then as a development dependency
t_react_peer ==
    << "{", "quote", "p", "e", "e", "r", "D", "e", "p", "e", "n", "d", "e", "n", "c",
       "i", "e", "s", "quote", ":", " ", "{", "quote", "r", "e", "a", "c", "t", "quote",
       ":", " ", "quote", ">", "=", "1", "6", "quote", "}", ",", "\n", "quote", "d",
       "e", "v", "D", "e", "p", "e", "n", "d", "e", "n", "c", "i", "e", "s", "quote",
       ":", " ", "{", "quote", "r", "e", "a", "c", "t", "quote", ":", " ", "quote", "1",
       "8", ".", "2", ".", "0", "quote", "}", "}" >>
\* the quoted name without a value
t_react_keyword ==
    << "{", "quote", "k", "e", "y", "w", "o", "r", "d", "s", "quote", ":", " ", "[",
       "quote", "r", "e", "a", "c", "t", "quote", "]", "}" >>
\* the quoted name with an empty value
t_react_empty ==
    << "{", "quote", "r", "e", "a", "c", "t", "quote", ":", " ", "quote", "quote",
       "}" >>
\* white space around the colon
t_react_spaced ==
    << "{", "quote", "r", "e", "a", "c", "t", "quote", " ", ":", "\n", " ", "quote",
       "1", "8", ".", "2", ".", "0", "quote", "}" >>
\* another framework only
t_vue_pair ==
    << "{", "quote", "v", "u", "e", "quote", ":", " ", "quote", "3", ".", "4", ".", "0",
       "quote", "}" >>
\* requirements.txt naming django
t_req_django ==
    << "d", "j", "a", "n", "g", "o", "=", "=", "4", ".", "2", "\n" >>
\* requirements.txt naming another framework
t_req_flask ==
    << "f", "l", "a", "s", "k", "\n" >>

\* A forest of one entry, and two forests put together
One(name, node) == [n \in {name} |-> node]
Merge(f, g) == [n \in DOMAIN f \cup DOMAIN g |-> IF n \in DOMAIN f THEN f[n] ELSE g[n]]

\* The roots the detection is run on: each of these entries is left out or put
\* in, in each of its forms.
ManageOptions == {<<>>, One(n_manage_py, TextFile(t_code))}
SettingsOptions == {<<>>, One(n_settings_py, TextFile(t_code))}
ChildOptions ==
    { <<>>,
      One(n_src, DirNode(<<>>)),
      One(n_src, DirNode(One(n_settings_py, TextFile(t_code)))),
      One(n_src, TextFile(t_code)) }
RequirementsOptions ==
    { <<>>,
      One(n_requirements_txt, TextFile(t_req_flask)),
      One(n_requirements_txt, TextFile(t_req_django)),
      One(n_pyproject_toml, TextFile(t_code)) }
PackageTexts ==
    {t_react_pair, t_react_peer, t_react_keyword, t_react_empty, t_react_spaced, t_vue_pair}
PackageOptions ==
    {<<>>, One(n_package_json, BinaryFile)} \cup
    {One(n_package_json, TextFile(t)) : t \in PackageTexts}

DetectTrees ==
    { Merge(m, Merge(s, Merge(c, Merge(r, p)))) :
        m \in ManageOptions, s \in SettingsOptions, c \in ChildOptions,
        r \in RequirementsOptions, p \in PackageOptions }

InitDetect ==
    /\ pc = "start"
    /\ fs \in DetectTrees
    /\ format \in FormatChoices
    /\ project_detector = NewDetector
    /\ stats = NewStats
    /\ file_paths = <<>>
    /\ output = <<>>
    /\ stack = <<>>
    /\ files = <<>>
    /\ counted = <<>>
    /\ first = <<>>
    /\ call = <<>>
    /\ output_content = None
    /\ tally = <<>>
    /\ previous = Lookup(fs, <<output_file_name(format)>>)

SpecDetect == InitDetect /\ [][Detect]_vars

\* ---------------------------------------------------------------- a walk over excluded directories
n_app_csproj == <<"a", "p", "p", ".", "c", "s", "p", "r", "o", "j">>

\* The marker file of the root: none, or that of one ecosystem.
MarkerOptions ==
    {<<>>} \cup
    { One(n, TextFile(t_code)) :
        n \in {n_Cargo_toml, n_package_json, n_requirements_txt, n_pom_xml, n_build_gradle,
               n_app_csproj, n_go_mod, n_composer_json} }

\* The directory names some ecosystem or the base list excludes.
ExcludableNames ==
    {n_target, n_node_modules, n_dist, n_build, n_pycache, n_pytest_cache, n_venv, n_gradle,
     n_bin, n_obj, n_vendor, n_assets, n_asset, n_public, n_git}

\* An entry of the root: a directory of an excludable name holding a file, a
\* directory that is walked and holds such a directory, the executable.
EntryOptions ==
    {<<>>, One(n_codetree, TextFile(t_code))} \cup
    { One(n, DirNode(One(n_a_rs, TextFile(t_code)))) : n \in ExcludableNames } \cup
    { One(n_src, DirNode(One(n, DirNode(EmptyForest)))) : n \in {n_target, n_obj, n_bin} }

ReasonTrees ==
    { Merge(m, Merge(a, b)) : m \in MarkerOptions, a \in EntryOptions, b \in EntryOptions }

InitReasons ==
    /\ pc = "start"
    /\ fs \in ReasonTrees
    /\ format \in FormatChoices
    /\ project_detector = NewDetector
    /\ stats = NewStats
    /\ file_paths = <<>>
    /\ output = <<>>
    /\ stack = <<>>
    /\ files = <<>>
    /\ counted = <<>>
    /\ first = <<>>
    /\ call = <<>>
    /\ output_content = None
    /\ tally = <<>>
    /\ previous = Lookup(fs, <<output_file_name(format)>>)

NextReasons == Detect \/ Walk

SpecReasons == InitReasons /\ [][NextReasons]_vars

\* ---------------------------------------------------------------- properties
Range(q) == {q[i] : i \in DOMAIN q}

\* A line of the tree text is a directory line when it ends with a slash.
IsDirLine(l) == l.text[Len(l.text)] = "/"

\* The branch glyph of a line: the element right before the entry name.
GlyphOf(l) ==
    l.text[Len(l.text) - Len(file_name(l.path)) - (IF IsDirLine(l) THEN 1 ELSE 0)]

ParentOf(path) == SubSeq(path, 1, Len(path) - 1)

LinePaths == {output[i].path : i \in DOMAIN output}
FileLinePaths == {output[i].path : i \in {j \in DOMAIN output : ~IsDirLine(output[j])}}
DirLinePaths == {output[i].path : i \in {j \in DOMAIN output : IsDirLine(output[j])}}

\* The directories whose entry loop has run: the root and every directory
\* that got a line.
VisitedDirs == {<<>>} \cup DirLinePaths

\* Every path the walk has touched: lines, collected paths, counted files, the
\* largest-files list and the directories of the active calls.
TouchedPaths ==
    LinePaths \cup Range(file_paths) \cup Range(counted)
        \cup {stats.largest_files[i].path : i \in DOMAIN stats.largest_files}
        \cup {stack[i].dir : i \in DOMAIN stack}

WalkOver == pc \in {"walked", "collected"}

\* C1: once the walk has finished, the files shown as file lines of the tree
\* text are exactly the paths of the file-path list and exactly the files
\* add_file counted, and total_files is the length of the file-path list.
C1_ShownEqualsCounted ==
    WalkOver =>
        /\ FileLinePaths = Range(file_paths)
        /\ FileLinePaths = Range(counted)
        /\ stats.total_files = Len(file_paths)

\* C2: after any sequence of add_file calls total_lines is the sum of code,
\* comment and blank lines; as this holds before and after every call, every
\* call adds amounts that satisfy the same equation.
C2_LinesAddUp ==
    stats.total_lines = stats.code_lines + stats.comment_lines + stats.blank_lines

C2_Witness ==
    /\ pc = "stats"
    /\ stats.code_lines > 0 /\ stats.comment_lines > 1 /\ stats.blank_lines > 0
    /\ stats.total_files > stats.sensitive_files_count + 2
    /\ stats.sensitive_files_count > 0

\* C3: after every add_file call largest_files is sorted by size, larger first,
\* and holds at most 10 entries.
C3_LargestSortedBounded ==
    LET lf == stats.largest_files
    IN  /\ Len(lf) <= 10
        /\ \A i \in 1..Len(lf) : \A j \in i..Len(lf) : lf[i].size >= lf[j].size

C3_Witness ==
    /\ stats.total_files > 10
    /\ Len(stats.largest_files) = 10
    /\ stats.largest_files[1].size > stats.largest_files[10].size

\* A path lies in a directory named as a base exclusion.
InBaseExcludedDir(path) ==
    \E k \in 1..Len(path) :
        /\ InList(BASE_EXCLUDED_DIRS, path[k])
        /\ Lookup(fs, SubSeq(path, 1, k)).kind = "dir"

\* C4: a directory named as a base exclusion is never walked and never shown, at
\* any depth and whatever was detected, and nothing beneath it reaches the
\* file-path list or the statistics.
C4_BaseDirsNeverWalked == \A p \in TouchedPaths : ~InBaseExcludedDir(p)

C4_Witness ==
    /\ WalkOver
    /\ project_detector.project_types # {}
    /\ \E i \in DOMAIN project_detector.excluded_stats.excluded_directories :
          LET r == project_detector.excluded_stats.excluded_directories[i]
          IN  Len(r.path) = 2 /\ r.file_count > 0 /\ InList(BASE_EXCLUDED_DIRS, file_name(r.path))

\* The regular files named .env in the directories the walk has visited.
EnvFiles ==
    {Append(d, n_env) : d \in {v \in VisitedDirs : Lookup(fs, Append(v, n_env)).kind = "file"}}

\* C5 as stated: every file named .env in a visited directory has an entry in
\* the final report that is marked sensitive and has no content.
C5_EnvEntryRedacted ==
    pc = "collected" =>
        \A p \in EnvFiles :
            \E i \in DOMAIN files :
                /\ files[i].relative_path = p
                /\ files[i].is_sensitive
                /\ ~files[i].content.some

\* C5 as amended: a file named .env in a visited directory has no entry in the
\* final report at all; it is recorded as an excluded file, so its content is
\* not in the report whatever it is.
C5_EnvNeverInReport ==
    pc = "collected" =>
        /\ \A i \in DOMAIN files : file_name(files[i].relative_path) # n_env
        /\ \A p \in EnvFiles :
              \E i \in DOMAIN project_detector.excluded_stats.excluded_files :
                  project_detector.excluded_stats.excluded_files[i].path = p

C5_Witness ==
    /\ pc = "collected"
    /\ Len(files) > 0
    /\ \E p \in EnvFiles : Len(p) = 2 /\ Lookup(fs, p).text.some

\* C6: an entry of the final report is marked sensitive exactly when its file
\* name ends with one of the SENSITIVE_FILES suffixes, and a sensitive entry has
\* no content; the flag and the absence depend on the name alone.
C6_SensitiveBySuffix ==
    \A i \in DOMAIN files :
        LET name == file_name(files[i].relative_path)
            suffixed == \E k \in 1..Len(SENSITIVE_FILES) : ends_with(name, SENSITIVE_FILES[k])
        IN  /\ files[i].is_sensitive <=> suffixed
            /\ files[i].is_sensitive => ~files[i].content.some

C6_Witness ==
    /\ pc = "collected"
    /\ \E i \in DOMAIN files :
          /\ files[i].is_sensitive
          /\ Lookup(fs, files[i].relative_path).text.some
    /\ \E i \in DOMAIN files : ~files[i].is_sensitive /\ files[i].content.some

\* C7: a second run of detection and walk on the same tree ends with the same
\* tree text and the same statistics as the first, however the directory
\* listings were ordered.
C7_SecondRunIdentical ==
    (pc = "walked" /\ first # <<>>) =>
        /\ first[1].file_tree = [i \in DOMAIN output |-> output[i].text]
        /\ first[1].statistics = stats

C7_Witness ==
    /\ pc = "walked"
    /\ first # <<>>
    /\ Len(output) = 3
    /\ \E i \in DOMAIN stats.largest_files : \E j \in DOMAIN stats.largest_files :
          i < j /\ stats.largest_files[i].size = stats.largest_files[j].size

\* The root holds Cargo.toml and no marker of another ecosystem.
OnlyCargo ==
    /\ RootHas(fs, n_Cargo_toml)
    /\ {i \in 1..Len(Ecosystems(fs)) : Ecosystems(fs)[i].found} = {1}

\* C8: with Cargo.toml the only marker in the root, the project types are
\* {"Rust"}; a directory target of the root is recorded once as excluded, with
\* the reason "Rust/Java build directory", and nothing beneath it is shown or
\* collected.
C8_RustTargetExcluded ==
    (OnlyCargo /\ pc # "start") =>
        /\ project_detector.project_types = {"Rust"}
        /\ (pc # "detected" /\ Lookup(fs, <<n_target>>).kind = "dir") =>
              LET recs == project_detector.excluded_stats.excluded_directories
              IN  /\ Cardinality({i \in DOMAIN recs : recs[i].path = <<n_target>>}) = 1
                  /\ \A i \in DOMAIN recs :
                        recs[i].path = <<n_target>> => recs[i].reason = "Rust/Java build directory"
        /\ \A p \in TouchedPaths :
              (Len(p) > 0 /\ p[1] = n_target) => Lookup(fs, <<n_target>>).kind # "dir"

C8_Witness ==
    /\ WalkOver
    /\ OnlyCargo
    /\ Lookup(fs, <<n_target>>).kind = "dir"
    /\ \E n \in DOMAIN Lookup(fs, <<n_target>>).children :
          Lookup(fs, <<n_target, n>>).kind = "file"

\* C9: an entry named as the executable or as the output file gets no line, is
\* not collected, is not counted and is not walked, at any depth.
C9_SkippedNamesNeverVisited ==
    \A p \in TouchedPaths :
        \A k \in 1..Len(p) : p[k] # script_name /\ p[k] # output_file_name(format)

C9_Witness ==
    /\ WalkOver
    /\ \E d \in VisitedDirs :
          /\ Len(d) = 1
          /\ Lookup(fs, Append(d, output_file_name(format))).kind = "dir"
          /\ DOMAIN Lookup(fs, Append(d, output_file_name(format))).children # {}

\* C10: for every visited directory with at least one child line, its last
\* child line uses the elbow glyph and every other child line the tee glyph.
C10_LastChildElbow ==
    WalkOver =>
        \A d \in VisitedDirs :
            LET idx == {i \in DOMAIN output : ParentOf(output[i].path) = d}
            IN  \A i \in idx :
                    GlyphOf(output[i]) = (IF \A j \in idx : j <= i THEN ELBOW ELSE TEE)

\* The depth of the entry a line was written for: children of the root are at 0.
DepthOf(l) == Len(l.path) - 1

\* C11: every tree line of an entry at depth d is d times the continuation
\* glyph, then exactly one branch glyph, then the entry name, with a trailing
\* slash for a directory; for last and non-last siblings alike.
C11_LineShape ==
    \A i \in DOMAIN output :
        LET l == output[i]
            tail == file_name(l.path)
                        \o (IF Lookup(fs, l.path).kind = "dir" THEN <<"/">> ELSE <<>>)
        IN  \E g \in {TEE, ELBOW} : l.text = indent(DepthOf(l)) \o <<g>> \o tail

\* One path lies strictly beneath another.
IsBeneath(p, d) == Len(p) > Len(d) /\ SubSeq(p, 1, Len(d)) = d

\* The paths of the file lines of the tree text, in the order of the lines.
RECURSIVE FileLineSeq(_)
FileLineSeq(k) ==
    IF k = 0 THEN <<>>
    ELSE IF Lookup(fs, output[k].path).kind = "dir" THEN FileLineSeq(k - 1)
    ELSE Append(FileLineSeq(k - 1), output[k].path)

\* C12: the lines of the children of a directory come directories first and,
\* within directories and within files, in ascending order of name; the whole
\* subtree of a directory is emitted right after its line and before its next
\* sibling; the file-path list is the file lines in the order of the tree text.
C12_SortedDepthFirst ==
    /\ \A i \in DOMAIN output : \A j \in DOMAIN output :
          (i < j /\ ParentOf(output[i].path) = ParentOf(output[j].path)) =>
              LET di == Lookup(fs, output[i].path).kind = "dir"
                  dj == Lookup(fs, output[j].path).kind = "dir"
              IN  /\ dj => di
                  /\ (di = dj) => StrLess(file_name(output[i].path), file_name(output[j].path))
    /\ \A k \in DOMAIN output :
          Len(output[k].path) > 1 =>
              \E j \in 1..(k - 1) :
                  /\ output[j].path = ParentOf(output[k].path)
                  /\ \A m \in (j + 1)..k : IsBeneath(output[m].path, output[j].path)
    /\ file_paths = FileLineSeq(Len(output))

C12_Witness ==
    /\ WalkOver
    /\ Len(output) = 3
    /\ \E i \in DOMAIN output : \E j \in DOMAIN output : \E k \in DOMAIN output :
          /\ Lookup(fs, output[i].path).kind = "dir"
          /\ IsBeneath(output[j].path, output[i].path)
          /\ ParentOf(output[k].path) = ParentOf(output[i].path)
          /\ Lookup(fs, output[k].path).kind # "dir"
          /\ StrLess(file_name(output[k].path), file_name(output[i].path))
          /\ i < j /\ j < k

\* The sum of the values of a per-extension map.
RECURSIVE MapSum(_)
MapSum(m) ==
    IF DOMAIN m = {} THEN 0
    ELSE LET k == CHOOSE x \in DOMAIN m : TRUE
         IN  m[k] + MapSum([x \in DOMAIN m \ {k} |-> m[x]])

\* C13: after any sequence of add_file calls the per-extension file counts add
\* up to total_files, files without an extension included.
C13_FilesByExtensionAddUp == MapSum(stats.files_by_extension) = stats.total_files

\* C14: after any sequence of add_file calls the per-extension line counts add
\* up to total_lines and the per-extension sizes to total_size_bytes; files
\* without an extension are entered under the sentinel key and a file whose
\* size could not be read adds nothing to either side.
C14_LinesAndSizesAddUp ==
    /\ MapSum(stats.lines_by_extension) = stats.total_lines
    /\ MapSum(stats.size_by_extension) = stats.total_size_bytes

C14_Witness ==
    /\ n_no_extension \in DOMAIN stats.lines_by_extension
    /\ stats.lines_by_extension[n_no_extension] > 0
    /\ stats.size_by_extension[n_no_extension] > 0
    /\ Cardinality(DOMAIN stats.size_by_extension) >= 3
    /\ \E i \in DOMAIN stats.largest_files :
          stats.largest_files[i] = [path |-> <<n_codetree>>, size |-> 0]

\* C15: add_file on a path that does not exist leaves every field of the
\* statistics as it was.
C15_MissingPathNoChange ==
    \A i \in DOMAIN call : ~call[i].given.present => stats = call[i].before

C15_Witness ==
    /\ call # <<>>
    /\ ~call[1].given.present
    /\ stats.total_files >= 2
    /\ Len(stats.largest_files) >= 2
    /\ stats.total_lines > 0

\* The value a per-extension map holds for a key, 0 when the key is absent.
At(m, k) == IF k \in DOMAIN m THEN m[k] ELSE 0

\* A per-extension map after the amount v was added under the key k.
IsMapPlus(after, before, k, v) ==
    /\ DOMAIN after = DOMAIN before \cup {k}
    /\ \A x \in DOMAIN after : after[x] = At(before, x) + (IF x = k THEN v ELSE 0)

\* C16: add_file on an existing file whose content cannot be decoded counts the
\* file (total_files, the sensitive counter for a sensitive name, the file
\* count of its extension if it has one), adds its on-disk size to
\* total_size_bytes and size_by_extension and offers it to largest_files, and
\* leaves every line counter, lines_by_extension and total_content_size_bytes
\* as they were.
C16_UndecodableCountedWithoutLines ==
    \A i \in DOMAIN call :
        LET g == call[i].given
            b == call[i].before
            name == file_name(g.path)
            e == extension(name)
            size == IF g.probe.ok THEN g.probe.val ELSE 0
            sensitive == \E k \in 1..Len(SENSITIVE_FILES) : ends_with(name, SENSITIVE_FILES[k])
        IN  (g.present /\ ~g.read.ok) =>
                /\ stats.total_files = b.total_files + 1
                /\ stats.sensitive_files_count =
                       b.sensitive_files_count + (IF sensitive THEN 1 ELSE 0)
                /\ IF e.some
                   THEN IsMapPlus(stats.files_by_extension, b.files_by_extension,
                                  to_lowercase(e.val), 1)
                   ELSE stats.files_by_extension = b.files_by_extension
                /\ stats.total_size_bytes = b.total_size_bytes + size
                /\ IsMapPlus(stats.size_by_extension, b.size_by_extension,
                             IF e.some THEN to_lowercase(e.val) ELSE n_no_extension, size)
                /\ \/ \E k \in DOMAIN stats.largest_files :
                          stats.largest_files[k] = [path |-> g.path, size |-> size]
                   \/ /\ Len(stats.largest_files) = TopN
                      /\ \A k \in DOMAIN stats.largest_files :
                             stats.largest_files[k].size >= size
                /\ stats.total_lines = b.total_lines
                /\ stats.code_lines = b.code_lines
                /\ stats.comment_lines = b.comment_lines
                /\ stats.blank_lines = b.blank_lines
                /\ stats.lines_by_extension = b.lines_by_extension
                /\ stats.total_content_size_bytes = b.total_content_size_bytes

C16_Witness ==
    /\ call # <<>>
    /\ call[1].given.present
    /\ ~call[1].given.read.ok
    /\ call[1].given.probe.ok
    /\ call[1].given.probe.val > 0
    /\ call[1].before.total_lines > 0
    /\ call[1].before.sensitive_files_count > 0

BaseExclusions == {BASE_EXCLUDED_DIRS[i] : i \in 1..Len(BASE_EXCLUDED_DIRS)}

\* C17: the directory exclusion set always holds every base exclusion; no step
\* removes a name from it; it changes only in the detection step, which is
\* over before the walk starts; the walk leaves it as detection left it.
C17_ExclusionSetFrozen ==
    /\ [](BaseExclusions \subseteq project_detector.excluded_dirs)
    /\ [][ /\ project_detector.excluded_dirs \subseteq project_detector'.excluded_dirs
           /\ (project_detector'.excluded_dirs # project_detector.excluded_dirs) =>
                  (pc = "start" /\ pc' = "detected")
           /\ (pc' = "walking" /\ pc # "walking") => pc = "detected"
           /\ pc # "start" => project_detector'.excluded_dirs = project_detector.excluded_dirs
         ]_vars

C17_Witness ==
    /\ WalkOver
    /\ n_target \in project_detector.excluded_dirs
    /\ Len(project_detector.excluded_stats.excluded_directories) > 0
    /\ Len(project_detector.excluded_stats.excluded_files) > 0

\* The sum of the sizes of the first k records of a list.
RECURSIVE SizeSum(_, _)
SizeSum(records, k) == IF k = 0 THEN 0 ELSE records[k].size + SizeSum(records, k - 1)

IsPrefix(a, b) == Len(a) <= Len(b) /\ SubSeq(b, 1, Len(a)) = a

\* C18: total_excluded_size is always the sum of the sizes of the excluded
\* directory records plus the sum of the sizes of the excluded file records,
\* and a step only ever appends records: none is removed or altered.
C18_ExcludedTotalIsSum ==
    /\ [](LET es == project_detector.excluded_stats
          IN  es.total_excluded_size =
                  SizeSum(es.excluded_directories, Len(es.excluded_directories))
                      + SizeSum(es.excluded_files, Len(es.excluded_files)))
    /\ [][ /\ IsPrefix(project_detector.excluded_stats.excluded_directories,
                       project_detector'.excluded_stats.excluded_directories)
           /\ IsPrefix(project_detector.excluded_stats.excluded_files,
                       project_detector'.excluded_stats.excluded_files) ]_vars

C18_Witness ==
    LET es == project_detector.excluded_stats
    IN  /\ pc = "walking"
        /\ \E i \in DOMAIN es.excluded_directories : es.excluded_directories[i].size > 0
        /\ \E i \in DOMAIN es.excluded_files : es.excluded_files[i].size > 0

\* Every path of a forest.
RECURSIVE PathsIn(_)
PathsIn(forest) ==
    UNION { {<<n>>} \cup {<<n>> \o p : p \in PathsIn(forest[n].children)} : n \in DOMAIN forest }

\* The regular files beneath a directory, at any depth.
FilesBeneath(d) == {p \in PathsIn(fs) : IsBeneath(p, d) /\ Lookup(fs, p).kind = "file"}

\* The on-disk sizes of a set of files, added up.
RECURSIVE OnDiskSum(_)
OnDiskSum(S) ==
    IF S = {} THEN 0
    ELSE LET p == CHOOSE x \in S : TRUE
             node == Lookup(fs, p)
         IN  Min(node.blocks * BlockSize, node.len) + OnDiskSum(S \ {p})

\* The directories the walk met as children of a visited directory and found
\* in the exclusion set.
ExcludedDirsMet ==
    {p \in PathsIn(fs) :
        /\ ParentOf(p) \in VisitedDirs
        /\ Lookup(fs, p).kind = "dir"
        /\ file_name(p) \in project_detector.excluded_dirs}

\* C19: once the walk is over, every excluded directory it met has exactly one
\* directory record, whose file count is the number of regular files beneath
\* it at any depth and whose size is the sum of their on-disk sizes, whatever
\* their names; nothing beneath it has a record of its own, and neither it nor
\* anything beneath it has a line or was visited.
C19_ExcludedDirRecordedWhole ==
    WalkOver =>
        \A d \in ExcludedDirsMet :
            LET es == project_detector.excluded_stats
                recs == {i \in DOMAIN es.excluded_directories :
                            es.excluded_directories[i].path = d}
            IN  /\ Cardinality(recs) = 1
                /\ \A i \in recs :
                      /\ es.excluded_directories[i].file_count = Cardinality(FilesBeneath(d))
                      /\ es.excluded_directories[i].size = OnDiskSum(FilesBeneath(d))
                /\ \A i \in DOMAIN es.excluded_directories :
                      ~IsBeneath(es.excluded_directories[i].path, d)
                /\ \A i \in DOMAIN es.excluded_files :
                      ~IsBeneath(es.excluded_files[i].path, d)
                /\ \A p \in TouchedPaths : p # d /\ ~IsBeneath(p, d)

C19_Witness ==
    /\ WalkOver
    /\ \E d \in ExcludedDirsMet :
          /\ Len(d) = 2
          /\ \E p \in FilesBeneath(d) : is_excluded_file(p) /\ Lookup(fs, p).len > 0

\* The regular files the walk met as children of a visited directory whose
\* name is a member of the excluded-file list.
ExcludedFilesMet ==
    {p \in PathsIn(fs) :
        /\ ParentOf(p) \in VisitedDirs
        /\ Lookup(fs, p).kind = "file"
        /\ \E i \in 1..Len(EXCLUDED_FILES) : EXCLUDED_FILES[i] = file_name(p)}

RECURSIVE EntrySizeSum(_)
EntrySizeSum(k) == IF k = 0 THEN 0 ELSE files[k].size_bytes + EntrySizeSum(k - 1)

\* C21: in the final report the byte size of every file entry is the on-disk
\* size of the file, the amount add_file added to total_size_bytes for it, so
\* the sizes of the entries add up to total_size_bytes.
C21_EntrySizeIsOnDisk ==
    pc = "collected" =>
        /\ \A i \in DOMAIN files :
              LET node == Lookup(fs, files[i].relative_path)
              IN  node.kind = "file" =>
                      files[i].size_bytes = Min(node.blocks * BlockSize, node.len)
        /\ EntrySizeSum(Len(files)) = stats.total_size_bytes

\* C22: the tree changes only by the removal and the write of the output file,
\* which come after the walk, the collection of every surviving file and the
\* rendering of the report; a removal takes away the file at the output path
\* and is followed at once by the write; nothing is written after that.
C22_OutputTouchedOnlyAtEnd ==
    [][ /\ fs' # fs => pc \in {"generated", "writing"}
        /\ pc' = "generated" =>
               /\ pc = "collected"
               /\ stack = <<>>
               /\ Len(files) = Len(file_paths)
               /\ output_content'.some
        /\ (pc = "generated" /\ fs' # fs) =>
               /\ fs' = [n \in DOMAIN fs \ {output_file_name(format)} |-> fs[n]]
               /\ pc' = "writing"
        /\ pc = "writing" =>
               /\ pc' \in {"done", "failed"}
               /\ \A n \in DOMAIN fs \ {output_file_name(format)} : fs'[n] = fs[n]
        /\ pc \in {"done", "failed"} => fs' = fs
      ]_vars

C22_Witness ==
    /\ pc = "done"
    /\ Len(files) >= 2
    /\ Len(output) = 3
    /\ fs[output_file_name(format)] = TextFile(output_content.val)

\* The entries of the tree that the listing of their directory cannot resolve.
LostPaths == {p \in PathsIn(fs) : Lookup(fs, p).kind = "lost"}

\* The walk has a next step: the innermost call returns, or its current entry
\* is one its listing resolved, which is skipped or visited.
WalkCanStep ==
    /\ Len(stack) > 0
    /\ \/ Top.i = Len(Top.entries) + 1
       \/ /\ Top.i \in 1..Len(Top.entries)
          /\ TopName \in DOMAIN ReadDir(fs, Top.dir)

Frameworks == project_detector.frameworks

\* manage.py is at the root, and settings.py is at the root or right below a
\* directory of the root.
ManageWithSettings ==
    /\ n_manage_py \in DOMAIN fs /\ fs[n_manage_py].kind = "file"
    /\ \/ n_settings_py \in DOMAIN fs /\ fs[n_settings_py].kind = "file"
       \/ \E d \in DOMAIN fs :
             /\ fs[d].kind = "dir"
             /\ n_settings_py \in DOMAIN fs[d].children
             /\ fs[d].children[n_settings_py].kind = "file"

\* setup.py, requirements.txt or pyproject.toml is at the root.
PythonMarker ==
    \E n \in {n_setup_py, n_requirements_txt, n_pyproject_toml} :
        n \in DOMAIN fs /\ fs[n].kind \in {"file", "dir"}

\* C24 as stated: a root with manage.py and a settings.py at the root or in a
\* child directory of the root has Django among the frameworks after
\* detect_project_types.
C24_DjangoByLayout ==
    (pc = "detected" /\ ManageWithSettings) => "Django" \in DOMAIN Frameworks

\* C24: a root with setup.py, requirements.txt or pyproject.toml, with manage.py
\* and with a settings.py at the root or in a child directory of the root has
\* Django among the frameworks after detect_project_types.
C24_DjangoByLayoutInPython ==
    (pc = "detected" /\ ManageWithSettings /\ PythonMarker)
        => "Django" \in DOMAIN Frameworks /\ Frameworks["Django"] = UnknownVersion

\* Django is found by the layout alone: settings.py is below a directory of the
\* root and requirements.txt does not name django.
C24_Witness ==
    /\ pc = "detected"
    /\ ManageWithSettings /\ PythonMarker
    /\ n_settings_py \notin DOMAIN fs
    /\ n_requirements_txt \in DOMAIN fs
    /\ ~contains(fs[n_requirements_txt].text.val, <<"d", "j", "a", "n", "g", "o">>)
    /\ "Django" \in DOMAIN Frameworks


\* The text of a readable package.json at the root, nothing otherwise.
PackageText ==
    IF n_package_json \in DOMAIN fs /\ fs[n_package_json].kind = "file"
    THEN fs[n_package_json].text
    ELSE None

n_react == <<"r", "e", "a", "c", "t">>
v_18_2_0 == <<"1", "8", ".", "2", ".", "0">>
QuotedReact == <<QUOTE>> \o n_react \o <<QUOTE>>
ReactEntry == QuotedReact \o <<":", " ", QUOTE>> \o v_18_2_0 \o <<QUOTE>>

\* The positions of a text where a pair "react": "<value>" starts.
ReactPairs(text) == {i \in 1..Len(text) : MatchAt(text, i, n_react).some}

\* C25 as stated: a package.json whose text contains the entry
\* "react": "18.2.0" maps React to 18.2.0; one whose text contains the quoted
\* name but no pair maps React to the placeholder.
C25_ReactVersion ==
    (pc = "detected" /\ PackageText.some) =>
        /\ contains(PackageText.val, ReactEntry) =>
              "React" \in DOMAIN Frameworks /\ Frameworks["React"] = v_18_2_0
        /\ (contains(PackageText.val, QuotedReact) /\ ReactPairs(PackageText.val) = {}) =>
              "React" \in DOMAIN Frameworks /\ Frameworks["React"] = UnknownVersion

\* C25: a package.json whose text contains the quoted name "react" maps React
\* to the value of the first pair "react": "<value>" of the text, and to the
\* placeholder when the text has no such pair; a text without the quoted name
\* does not put React in the record.
C25_ReactFirstVersion ==
    (pc = "detected" /\ PackageText.some) =>
        LET text == PackageText.val
            pairs == ReactPairs(text)
        IN  /\ contains(text, QuotedReact) <=> "React" \in DOMAIN Frameworks
            /\ \A i \in pairs :
                  (\A j \in pairs : i <= j) => Frameworks["React"] = MatchAt(text, i, n_react).val
            /\ (contains(text, QuotedReact) /\ pairs = {}) =>
                  Frameworks["React"] = UnknownVersion

\* The text holds the entry "react": "18.2.0" after another pair for react,
\* and React is mapped to the value of that other pair.
C25_Witness ==
    /\ pc = "detected"
    /\ PackageText.some
    /\ contains(PackageText.val, ReactEntry)
    /\ \E i \in ReactPairs(PackageText.val) :
          /\ MatchAt(PackageText.val, i, n_react).val # v_18_2_0
          /\ Frameworks["React"] = MatchAt(PackageText.val, i, n_react).val


\* The directories the walk met as children of a visited directory that are
\* neither in the exclusion set nor named as one of the two skipped names.
KeptDirsMet ==
    {p \in PathsIn(fs) :
        /\ ParentOf(p) \in VisitedDirs
        /\ Lookup(fs, p).kind = "dir"
        /\ file_name(p) \notin project_detector.excluded_dirs
        /\ ~IsSkipped(file_name(p), format)}

\* C26: once the walk is over, every directory met as a child of a visited
\* directory, not in the exclusion set and not named as a skipped name, has a
\* line in the tree text and was visited; no excluded-file record is for a
\* directory.
C26_KeptDirsDescended ==
    WalkOver =>
        /\ \A d \in KeptDirsMet :
              /\ \E i \in DOMAIN output : output[i].path = d
              /\ d \in VisitedDirs
        /\ \A i \in DOMAIN project_detector.excluded_stats.excluded_files :
              Lookup(fs, project_detector.excluded_stats.excluded_files[i].path).kind # "dir"


\* C27: the walk of a tree to which an entry named as the output file or as
\* the executable was added, in a directory the walk goes through, ends with
\* the same tree text, the same file-path list and the same statistics as the
\* walk of the tree without that entry.
C27_SkippedLeavesNoTrace ==
    (pc = "walked" /\ first # <<>>) =>
        /\ first[1].file_tree = [i \in DOMAIN output |-> output[i].text]
        /\ first[1].file_paths = file_paths
        /\ first[1].statistics = stats


\* How many files a tally holds.
RECURSIVE TallyCount(_)
TallyCount(t) ==
    IF DOMAIN t = {} THEN 0
    ELSE LET x == CHOOSE y \in DOMAIN t : TRUE
         IN  t[x] + TallyCount([y \in DOMAIN t \ {x} |-> t[y]])

\* The k largest of the sizes of a tally, as a tally.
RECURSIVE TopOfTally(_, _)
TopOfTally(t, k) ==
    IF k = 0 \/ DOMAIN t = {} THEN <<>>
    ELSE LET m == CHOOSE x \in DOMAIN t : \A y \in DOMAIN t : y <= x
             c == Min(t[m], k)
             rest == TopOfTally([y \in DOMAIN t \ {m} |-> t[y]], k - c)
         IN  [x \in DOMAIN rest \cup {m} |-> IF x = m THEN c ELSE rest[x]]

\* The sizes of the largest-files list, as a tally.
LargestSizes ==
    LET lf == stats.largest_files
    IN  [x \in {lf[i].size : i \in DOMAIN lf} |->
            Cardinality({i \in DOMAIN lf : lf[i].size = x})]

\* C28: after any sequence of add_file calls that counted n files,
\* largest_files holds min(n, 10) entries and their sizes are, with their
\* multiplicities, the min(n, 10) largest of the sizes counted so far.
C28_LargestAreTheTop ==
    LET n == TallyCount(tally)
    IN  /\ Len(stats.largest_files) = Min(n, TopN)
        /\ LargestSizes = TopOfTally(tally, Min(n, TopN))

\* More than ten files were counted, of three sizes or more, and the list has
\* room for only some of the files of its smallest size.
C28_Witness ==
    /\ TallyCount(tally) > TopN
    /\ Cardinality(DOMAIN LargestSizes) >= 3
    /\ \E x \in DOMAIN LargestSizes : LargestSizes[x] < tally[x]


\* The file at the output path, if there is one.
OutputNode == Lookup(fs, output_file_path(format))

\* C29: a file that was at the output path when the run began is still there,
\* with the content it had, whenever the run has ended with an error.
C29_PreviousReportKept ==
    (pc = "failed" /\ previous.kind = "file") => OutputNode = previous

\* The reason that goes with a directory name: the base names first, then the
\* names the ecosystems add.
BaseReason == "Base excluded directory"
NameReason(name) ==
    IF name \in BaseExclusions THEN BaseReason
    ELSE CASE name = n_target -> "Rust/Java build directory"
           [] name = n_node_modules -> "Node.js dependencies"
           [] name \in {n_dist, n_build} -> "Build output directory"
           [] name = n_pycache -> "Python cache directory"
           [] name = n_pytest_cache -> "Pytest cache directory"
           [] name = n_venv -> "Python virtual environment"
           [] name = n_gradle -> "Gradle cache directory"
           [] name = n_bin -> ".NET build directory"
           [] name = n_vendor -> "Dependencies directory"
           [] name \in {n_assets, n_asset, n_public} -> "Static assets directory"
           [] OTHER -> "no reason"

FallbackReasons == {"Project-specific excluded directory", "Unknown exclusion reason"}

ExcludedDirRecords ==
    {project_detector.excluded_stats.excluded_directories[i] :
        i \in DOMAIN project_detector.excluded_stats.excluded_directories}

\* C30: the reason of every excluded-directory record is the one that goes
\* with the name of the directory, whatever was detected: the base reason for a
\* base name, the table category for a name an ecosystem added; it is never one
\* of the two fallback reasons.
C30_ReasonByNameOnly ==
    \A r \in ExcludedDirRecords :
        /\ r.reason = NameReason(file_name(r.path))
        /\ r.reason \notin FallbackReasons

\* A .NET project, which adds obj to the exclusions, with a directory obj
\* recorded under the base reason.
C30_Witness ==
    /\ pc = "walked"
    /\ ".NET" \in project_detector.project_types
    /\ \E r \in ExcludedDirRecords : file_name(r.path) = n_obj /\ r.reason = BaseReason
====
